---- MODULE Spec2Model ----
(***************************************************************************)
(* Model of lite-image-export: the resumable blob fetcher                  *)
(* (downloadLayerWithRetry), the export of one image into an output        *)
(* directory (streamImageLayers / streamDockerFormatWithReturn) and the    *)
(* archive assembler (assembleImageTar).                                   *)
(*                                                                         *)
(* File contents are sequences of bytes over a two-letter alphabet.  File  *)
(* system calls fail only for reasons the modelled state decides (opening  *)
(* a missing file); the disk never fails spontaneously.                    *)
(***************************************************************************)
EXTENDS Integers, Sequences, FiniteSets, TLC

\* ---------------------------------------------------------------- bounds
MaxSize == 2          \* largest expected blob size (bytes)
MaxBody == 2          \* largest response body (bytes)
MaxFileLen == 3       \* disk capacity for the destination file (bytes)
MaxRequests == 6      \* blob requests the registry answers in one run
MaxLayers == 2        \* most layers of an image
MaxConcurrency == 2   \* largest errgroup limit
MaxImages == 2        \* most references passed to ExportImage
MaxManifests == 2     \* most entries of an image index
MaxEntries == 2       \* most entries of a manifest.json handed to the assembler

\* ------------------------------------------------------- program constants
maxRetries == 5

Byte == {0, 1}
StatusPartialContent == 206
StatusOK == 200
StatusUnauthorized == 401
StatusNotFound == 404
TransportError == 0   \* client.Do returned err: there is no status code
NoRange == 0          \* the request carries no Range header (bytes=N- has N > 0)
EmptyDigest == 0      \* expectedDigest == ""

VARIABLES
  \* downloadLayerWithRetry
  pc,              \* position in the function
  file,            \* the file at destPath
  size,            \* parameter size (expected size)
  expectedDigest,  \* parameter expectedDigest
  token,           \* bearer token obtained by the handshake
  retries,         \* loop counter of the retry loop
  lastErr,         \* lastErr
  chunkDownloaded, \* chunkDownloaded
  result,          \* the returned error, read when pc = "done"
  \* what an observer of the call records
  lastStatus,      \* status of the response to the latest blob request
  lastRange,       \* Range header of the latest blob request
  blobRequests,    \* number of blob requests issued
  authRequests,    \* number of requests of the handshake
  entrySize,       \* getFileSize(destPath) when the function was entered
  entryValid,      \* whether the file at entry had the expected digest
  progress,        \* what the attempts made so far amount to
  registry,        \* the registry: the challenge it sends, the token it issues
  probeStatus,     \* status of the answer to the /v2/ probe
  tokenURL,        \* URL of the token request issued
  tokenReply,      \* outcome of the token request
  authorization,   \* Authorization header of the latest blob request
  written,         \* the bytes io.Copy wrote for the latest blob request
  slept            \* seconds the latest iteration of the retry loop slept (time.Sleep)

fetchVars == <<pc, file, size, expectedDigest, token, retries, lastErr,
               chunkDownloaded, result, lastStatus, lastRange, blobRequests,
               authRequests, entrySize, entryValid, progress, registry,
               probeStatus, tokenURL, tokenReply, authorization, written, slept>>

VARIABLES
  \* one export run: main, streamImageLayers, streamDockerFormatWithReturn
  epc,           \* position in the run
  variant,       \* "rest": the REST exporter; "cache": the errgroup cache variant
  layers,        \* img.Layers(): the digests of the image's layers, in order
  existLayers,   \* the digests the target host already holds
  imageRef,      \* the image reference, a sequence of its parts
  dir,           \* the files of the output (or cache) directory
  layerDigests,  \* layerDigests
  idx,           \* index of the next layer to download (or task to start)
  requested,     \* digests whose blob was requested from the registry
  manifest,      \* the manifest file written
  repositories,  \* the repositories file written
  runErr,        \* the error the run ends with, read when epc = "exit"
  tasks,         \* cache variant: the state of each errgroup task
  concurrency,   \* cache variant: the limit of the errgroup
  finished,      \* cache variant: task indices in order of completion
  tar,           \* archive under construction by assembleImageTar
  mi,            \* assembleImageTar: index of the manifest entry
  li,            \* assembleImageTar: index of the layer within the entry
  handshakes,    \* handshakes with the registry made during the run
  rawConfig,     \* the image's configuration blob, a sequence of its tokens
  configData,    \* the bytes written to the config file, <<>> before the write
  \* ExportImage (part_002): several cached images into one archive
  images,        \* the references passed to ExportImage
  cached,        \* the references whose metadata the cache holds
  allManifest,   \* allManifest
  allRepositories, \* allRepositories, a set of <<repoName, tag, value>>
  archiveLayers  \* the layer files collected from the manifests (layers)

configVars == <<rawConfig, configData>>

archiveVars == <<images, cached, allManifest, allRepositories, archiveLayers>>

exportVars == <<epc, variant, layers, existLayers, imageRef, dir, layerDigests,
                idx, requested, manifest, repositories, runErr, tasks,
                concurrency, finished, tar, mi, li, handshakes, configVars, archiveVars>>

VARIABLES
  \* selectPlatformImage (part_003)
  ipc,           \* position in selectPlatformImage
  manifests,     \* manifest.Manifests: the platform record of each entry
  platform,      \* options.Platform, a sequence of its parts; "/" is the slash
  mPos,          \* index of the entry the loop looks at
  selectedDesc,  \* index of the selected entry, 0 for nil
  indexResult,   \* "image", "error" or "panic" once the call has ended
  indexErr       \* the error returned

indexVars == <<ipc, manifests, platform, mPos, selectedDesc, indexResult, indexErr>>

VARIABLES
  \* initializeApplication (part_003) and LoadConfig (config.go)
  apc,           \* position in initializeApplication
  configFile,    \* the file at configPath
  env,           \* the environment variables LoadConfig reads
  keyFiles,      \* the key files that exist
  dirs,          \* the state of the directories an output_dir may name
  globalConfig,  \* globalConfig
  loadErr,       \* the error LoadConfig returned
  appErr         \* the error initializeApplication returns

appVars == <<apc, configFile, env, keyFiles, dirs, globalConfig, loadErr, appErr>>

VARIABLES
  \* handleSSHExecuteStream (part_002) and ExecuteCommandStream (part_001)
  spc,           \* position of each goroutine of one streamed execution
  outputChan,    \* the messages buffered in outputChan
  closes,        \* the number of close(outputChan) calls made
  streamPanic,   \* the runtime panic that ended the process, "" if none
  sent           \* the number of chunks each pipe reader has sent

streamVars == <<spc, outputChan, closes, streamPanic, sent>>

VARIABLES
  \* SSHClient and SSHManager (part_001)
  tpc,           \* position of each thread in the operation it performs
  top,           \* the operation each thread performs, "" before its call
  tret,          \* how each thread's operation ends: "ok", "error", "panic"
  mgrLock,       \* SSHManager.mu: its writer (0 if none) and its readers
  cliLock,       \* SSHClient.mu: its writer (0 if none) and its readers
  client,        \* SSHClient.client: "nil" or "live"
  connected,     \* SSHClient.connected
  inMap,         \* the client is in SSHManager.connections
  nilUse         \* NewSession was called on a nil client

sshVars == <<tpc, top, tret, mgrLock, cliLock, client, connected, inMap, nilUse>>

VARIABLES
  \* handleSSHExecute (part_002) and ExecuteCommandWithContext (part_001)
  wpc,           \* position of the worker goroutine
  cpc,           \* position of the caller
  resultChan,    \* the values buffered in resultChan
  errChan,       \* the values buffered in errChan
  outcome,       \* what ExecuteCommand returned to the worker
  reqTimeout,    \* req.Timeout, in seconds
  elapsed,       \* the seconds since the context was made
  callerRet      \* what ExecuteCommandWithContext returned

contextVars == <<wpc, cpc, resultChan, errChan, outcome, reqTimeout, elapsed, callerRet>>

serviceVars == <<indexVars, appVars, streamVars, sshVars, contextVars>>

vars == <<fetchVars, exportVars, serviceVars>>

\* ------------------------------------------------------------ data types
SeqsUpTo(S, n) == UNION {[1..k -> S] : k \in 0..n}

NoFile == [exists |-> FALSE, data |-> <<>>]

FileOf(d) == [exists |-> TRUE, data |-> d]

\* getFileSize: the size of the file, 0 when it does not exist
getFileSize(f) == IF f.exists THEN Len(f.data) ELSE 0

\* "sha256:" + hex(sha256(content)): a collision-free function of the content
\* that never yields the empty string.
RECURSIVE Sha256(_)
Sha256(d) == IF d = <<>> THEN 1 ELSE 2 * Sha256(SubSeq(d, 1, Len(d) - 1)) + d[Len(d)]

\* the digest comparison of line 204 is lost: any readable file passes
validateFileIntegrity_NoCompare(f, digest) == f.exists

\* validateFileIntegrity returns nil
validateFileIntegrity(f, digest) == f.exists /\ Sha256(f.data) = digest

\* An error is the chain of its wrapped errors, outermost first; nil is the
\* empty chain.
NilErr == <<>>

\* WrapError / NewAppError (logger.go)
WrapError(code, message, cause) == <<[Code |-> code, Message |-> message]>> \o cause

\* AppError.Unwrap
Unwrap(e) == Tail(e)

\* responses of the registry to one blob request
\* (every status other than 200 and 206 takes the default branch of line 369;
\* 401 stands for them)
Responses ==
  [status : {StatusOK, StatusPartialContent}, body : SeqsUpTo(Byte, MaxBody), copyErr : BOOLEAN]
  \cup [status : {TransportError, StatusUnauthorized}, body : {<<>>}, copyErr : {FALSE}]

NoStatus == -1       \* no blob request has been answered yet

\* ------------------------------------------------- the export: data types
Digests == {"sha256:a", "sha256:b"}

\* img.ConfigName()
ConfigDigest == "sha256:c"

\* image references, as the sequence of their parts; ":" is the colon
ImageRefs == { <<"repo/name">>,
               <<"repo/name", ":", "v1">>,
               <<"host", ":", "5000/repo/name", ":", "v1">> }

\* a file of the directory is absent, shorter than the blob, the blob itself,
\* of the blob's size with other content, or longer than the blob
FileStates == {"absent", "short", "valid", "corrupt", "long"}

\* "<digest>.tar"
LayerFile(d) == d \o ".tar"

\* "<configDigest>.json"
ConfigFile == ConfigDigest \o ".json"

FileNames == {LayerFile(d) : d \in Digests} \cup {ConfigFile}

\* configuration blobs, as sequences of tokens: a member the struct
\* v1.ConfigFile has ("architecture", "os"), a member it has not ("x"), and
\* white space
RawConfigs ==
  { <<"architecture:amd64", "os:linux">>,
    <<"os:linux", "architecture:amd64">>,
    <<"architecture:amd64", " ", "os:linux", "x:1">> }

\* img.ConfigFile(): the blob parsed into the struct v1.ConfigFile; a member
\* the struct does not have is dropped, a member the blob does not have is ""
ConfigFileOf(raw) ==
  [architecture |-> IF \E i \in 1..Len(raw) : raw[i] = "architecture:amd64"
                    THEN "amd64" ELSE "",
   os |-> IF \E i \in 1..Len(raw) : raw[i] = "os:linux" THEN "linux" ELSE ""]

\* json.Marshal of the struct: its members in the order of the struct's
\* fields, without white space
Marshal(cfg) == <<"architecture:" \o cfg.architecture, "os:" \o cfg.os>>

NoManifest == [state |-> "none", entries |-> <<>>]

NoRepositories == [exists |-> FALSE, map |-> {}]

NoTar == [exists |-> FALSE, names |-> <<>>]

\* os.Stat(path) succeeds
Exists(d, name) == name \in DOMAIN d /\ d[name] # "absent"

\* selectPlatformImage is not running
IndexIdle ==
  /\ ipc = "idle"
  /\ manifests = <<>>
  /\ platform = <<>>
  /\ mPos = 0
  /\ selectedDesc = 0
  /\ indexResult = "none"
  /\ indexErr = <<>>

\* a Config with every field zero, standing for the nil *Config
NilConfig ==
  [Host |-> "", Port |-> 0, Username |-> "", Password |-> "", KeyFile |-> "",
   MaxRetries |-> 0, RetryDelay |-> 0, Concurrency |-> 0, OutputDir |-> ""]

\* initializeApplication is not running
AppIdle ==
  /\ apc = "idle"
  /\ configFile = [state |-> "absent", has |-> {}, values |-> NilConfig]
  /\ env = [SSH_PORT |-> <<>>, DOWNLOAD_CONCURRENCY |-> <<>>, SSH_KEY_FILE |-> ""]
  /\ keyFiles = {}
  /\ dirs = [d \in {"output", "/data"} |-> "exists"]
  /\ globalConfig = NilConfig
  /\ loadErr = <<>>
  /\ appErr = <<>>

\* no streamed execution is running
StreamIdle ==
  /\ spc = [p \in {"exec", "stdout", "stderr", "consumer"} |-> "off"]
  /\ outputChan = <<>>
  /\ closes = 0
  /\ streamPanic = ""
  /\ sent = [p \in {"stdout", "stderr"} |-> 0]

\* the threads that call the SSH operations
MaxOps == 2

Threads == 1..MaxOps

\* no SSH operation is called
SSHIdle ==
  /\ tpc = [t \in Threads |-> 0]
  /\ top = [t \in Threads |-> ""]
  /\ tret = [t \in Threads |-> "ok"]
  /\ mgrLock = [w |-> 0, r |-> {}]
  /\ cliLock = [w |-> 0, r |-> {}]
  /\ client = "nil"
  /\ connected = FALSE
  /\ inMap = FALSE
  /\ nilUse = FALSE

\* a nil result and a nil error
NoReturn == [result |-> <<>>, err |-> <<>>]

\* ExecuteCommandWithContext is not called
ContextIdle ==
  /\ wpc = "off"
  /\ cpc = "off"
  /\ resultChan = <<>>
  /\ errChan = <<>>
  /\ outcome = NoReturn
  /\ reqTimeout = 0
  /\ elapsed = 0
  /\ callerRet = NoReturn

ServiceIdle == IndexIdle /\ AppIdle /\ StreamIdle /\ SSHIdle /\ ContextIdle

\* no config file has been written
ConfigIdle == rawConfig = <<>> /\ configData = <<>>

\* ExportImage is not running
ArchiveIdle ==
  /\ images = <<>>
  /\ cached = {}
  /\ allManifest = <<>>
  /\ allRepositories = {}
  /\ archiveLayers = <<>>

ExportIdle ==
  /\ ConfigIdle
  /\ ArchiveIdle
  /\ epc = "idle"
  /\ variant = "rest"
  /\ layers = <<>>
  /\ existLayers = {}
  /\ imageRef = <<>>
  /\ dir = [n \in FileNames |-> "absent"]
  /\ layerDigests = <<>>
  /\ idx = 0
  /\ requested = {}
  /\ manifest = NoManifest
  /\ repositories = NoRepositories
  /\ runErr = NilErr
  /\ tasks = <<>>
  /\ concurrency = 0
  /\ finished = <<>>
  /\ tar = NoTar
  /\ mi = 0
  /\ li = 0
  /\ handshakes = 0

\* ------------------------------------------------ downloadLayerWithRetry
\* The blob of the layer: the manifest gives its size and its digest.  The
\* bytes are interchangeable, so the blob is taken to be all zeros; every
\* other content of the same size is then a content with a wrong digest.
Blob(sz) == [i \in 1..sz |-> 0]

\* the result of the verification of line 222 is read the wrong way round
PreCheckReturns_Inverted(f, sz, digest) ==
  LET localSize == getFileSize(f) IN
  /\ localSize > 0 /\ sz > 0 /\ localSize = sz
  /\ (digest # EmptyDigest => ~validateFileIntegrity(f, digest))

\* lines 219-235: the pre-check returns nil
PreCheckReturns(f, sz, digest) ==
  LET localSize == getFileSize(f) IN
  /\ localSize > 0 /\ sz > 0 /\ localSize = sz
  /\ (digest # EmptyDigest => validateFileIntegrity(f, digest))

\* the os.Remove of line 224 is lost
FileAfterPreCheck_NoRemove(f, sz, digest) == f

\* lines 219-226: the file the pre-check leaves behind
FileAfterPreCheck(f, sz, digest) ==
  LET localSize == getFileSize(f) IN
  IF /\ localSize > 0 /\ sz > 0 /\ localSize = sz
     /\ digest # EmptyDigest
     /\ ~validateFileIntegrity(f, digest)
  THEN NoFile
  ELSE f

\* lines 217-235: the check of an already complete file
PreCheck ==
  /\ pc = "start"
  /\ file' = FileAfterPreCheck(file, size, expectedDigest)
  /\ IF PreCheckReturns(file, size, expectedDigest)
     THEN /\ result' = NilErr /\ pc' = "done"
     ELSE /\ result' = result /\ pc' = "auth"
  /\ UNCHANGED <<size, expectedDigest, token, retries, lastErr, chunkDownloaded,
                 lastStatus, lastRange, blobRequests, authRequests, entrySize,
                 entryValid, progress, registry, probeStatus, tokenURL,
                 tokenReply, authorization, written, slept>>
  /\ UNCHANGED <<exportVars, serviceVars>>

ProbeOutcomes == {TransportError, StatusOK, StatusUnauthorized, StatusNotFound}
TokenOutcomes == {"transport", "status", "undecodable", "token"}

\* the Token field decoded from the body of the token service (line 275-281);
\* it is empty when the body has no "token" member
Tokens == {"", "tok"}

\* imageRef.Context().RepositoryStr()
RepositoryStr == "repo"

\* Strings of the handshake are sequences of parts; the parts " ", ",", "="
\* and "\"" are the characters the parser looks for.
\* strings.Index, 1-based; 0 when c does not occur
Index(str, c) ==
  IF \E i \in 1..Len(str) : str[i] = c
  THEN CHOOSE i \in 1..Len(str) : str[i] = c /\ \A j \in 1..(i - 1) : str[j] # c
  ELSE 0

\* strings.SplitN(str, c, 2)
SplitN2(str, c) ==
  LET i == Index(str, c) IN
  IF i = 0 THEN <<str>> ELSE <<SubSeq(str, 1, i - 1), SubSeq(str, i + 1, Len(str))>>

\* strings.Split(str, c)
RECURSIVE Split(_, _)
Split(str, c) ==
  LET i == Index(str, c) IN
  IF i = 0 THEN <<str>>
  ELSE <<SubSeq(str, 1, i - 1)>> \o Split(SubSeq(str, i + 1, Len(str)), c)

\* strings.Trim(str, c)
RECURSIVE Trim(_, _)
Trim(str, c) ==
  IF str # <<>> /\ Head(str) = c THEN Trim(Tail(str), c)
  ELSE IF str # <<>> /\ str[Len(str)] = c THEN Trim(SubSeq(str, 1, Len(str) - 1), c)
  ELSE str

\* part_003 lines 167-180: the map, as the sequence of its assignments
parseAuthHeader(header) ==
  LET parts == SplitN2(header, " ") IN
  IF Len(parts) = 2 /\ parts[1] = <<"Bearer">>
  THEN LET params == Split(parts[2], ",")
           kvs == [i \in 1..Len(params) |-> SplitN2(params[i], "=")]
           good == SelectSeq(kvs, LAMBDA kv : Len(kv) = 2)
       IN [i \in 1..Len(good) |-> <<good[i][1], Trim(good[i][2], "\"")>>]
  ELSE <<>>

\* authHeader[key]: the latest assignment to key, "" when there is none
MapGet(m, key) ==
  LET hits == {i \in 1..Len(m) : m[i][1] = <<key>>} IN
  IF hits = {} THEN <<>> ELSE m[CHOOSE i \in hits : \A j \in hits : j <= i][2]

\* the default scope is forgotten
TokenURL_NoDefault(authHeader) ==
  MapGet(authHeader, "realm") \o <<"?service=">> \o MapGet(authHeader, "service")
    \o <<"&scope=">> \o MapGet(authHeader, "scope")

\* part_003 lines 256-263: the URL of the token request
TokenURL(authHeader) ==
  LET realm == MapGet(authHeader, "realm")
      service == MapGet(authHeader, "service")
      scope == IF MapGet(authHeader, "scope") = <<>>
               THEN <<"repository:", RepositoryStr, ":pull">>
               ELSE MapGet(authHeader, "scope")
  IN realm \o <<"?service=">> \o service \o <<"&scope=">> \o scope

NoURL == <<>>        \* no token request was issued

\* part_003 lines 331-333: the Authorization header of a blob request, empty
\* when the request has none
AuthorizationHeader(tok) == IF tok # "" THEN <<"Bearer ", tok>> ELSE <<>>

\* A challenge of a registry: its scheme and the values of its parameters; an
\* empty scheme is a 401 without Www-Authenticate, an empty scope a challenge
\* without the scope parameter.
Challenges ==
  { [scheme |-> "", realm |-> <<>>, service |-> <<>>, scope |-> <<>>],
    [scheme |-> "Basic", realm |-> <<"R">>, service |-> <<>>, scope |-> <<>>] }
  \cup [scheme : {"Bearer"}, realm : {<<"R">>}, service : {<<"S">>},
        scope : {<<>>, <<"repository:repo:pull">>, <<"repository:repo:pull", ",", "push">>}]

\* key="value"
Param(key, value) == <<key, "=", "\"">> \o value \o <<"\"">>

\* the Www-Authenticate header the registry sends for the challenge
ChallengeHeader(ch) ==
  IF ch.scheme = "" THEN <<>>
  ELSE <<ch.scheme, " ">> \o Param("realm", ch.realm)
       \o (IF ch.service # <<>> THEN <<",">> \o Param("service", ch.service) ELSE <<>>)
       \o (IF ch.scope # <<>> THEN <<",">> \o Param("scope", ch.scope) ELSE <<>>)

\* a registry that challenges with Bearer realm="R",service="S" and issues "tok"
StandardRegistry ==
  [challenge |-> [scheme |-> "Bearer", realm |-> <<"R">>, service |-> <<"S">>, scope |-> <<>>],
   token |-> "tok"]

Registries == [challenge : Challenges, token : Tokens]

\* a probe status other than 401 counts as "no authentication needed"
HandshakeError_ProbeIgnored(probe, reply) ==
  IF probe = TransportError
  THEN WrapError("NETWORK_ERROR", "probe request failed", NilErr)
  ELSE IF probe = StatusUnauthorized /\ reply # "token"
  THEN WrapError(IF reply = "transport" THEN "NETWORK_ERROR" ELSE "AUTH_ERROR", reply, NilErr)
  ELSE NilErr

\* part_003 lines 241-285: the error of the closure, nil when it yields a token
HandshakeError(probe, reply) ==
  IF probe = TransportError
  THEN WrapError("NETWORK_ERROR", "probe request failed", NilErr)
  ELSE IF probe = StatusUnauthorized
  THEN IF reply = "token" THEN NilErr
       ELSE WrapError(IF reply = "transport" THEN "NETWORK_ERROR" ELSE "AUTH_ERROR",
                      reply, NilErr)
  ELSE IF probe # StatusOK
  THEN WrapError("AUTH_ERROR", "probe status", NilErr)
  ELSE NilErr

\* part_003 lines 281 and 285: the token the closure yields
HandshakeToken(probe, tok) == IF probe = StatusUnauthorized THEN tok ELSE ""

\* lines 237-290: the handshake, once per call
Authenticate ==
  /\ pc = "auth"
  /\ \E probe \in ProbeOutcomes, reply \in TokenOutcomes :
       LET authHeader == parseAuthHeader(ChallengeHeader(registry.challenge))
           err == HandshakeError(probe, reply)
       IN
       \* a token URL without a realm has no scheme: the request fails
       /\ (probe = StatusUnauthorized /\ MapGet(authHeader, "realm") = <<>>)
            => reply = "transport"
       /\ probeStatus' = probe
       /\ tokenURL' = IF probe = StatusUnauthorized THEN TokenURL(authHeader) ELSE NoURL
       /\ tokenReply' = IF probe = StatusUnauthorized THEN reply ELSE "none"
       /\ authRequests' = authRequests + (IF probe = StatusUnauthorized THEN 2 ELSE 1)
       /\ IF err = NilErr
          THEN /\ token' = HandshakeToken(probe, registry.token)
               /\ pc' = "outer" /\ result' = result
          ELSE /\ result' = WrapError("AUTH_ERROR", "auth failed", err)
               /\ pc' = "done" /\ token' = token
  /\ UNCHANGED <<file, size, expectedDigest, retries, lastErr, chunkDownloaded,
                 lastStatus, lastRange, blobRequests, entrySize, entryValid,
                 progress, registry, authorization, written, slept>>
  /\ UNCHANGED <<exportVars, serviceVars>>

\* lines 292-321: top of the outer loop
OuterLoop ==
  /\ pc = "outer"
  /\ LET currentSize == getFileSize(file) IN
     IF size > 0 /\ currentSize = size
     THEN IF validateFileIntegrity(file, expectedDigest)
          THEN /\ result' = NilErr /\ pc' = "done" /\ file' = file
               /\ progress' = IF progress = "copied" THEN "moved" ELSE progress
               /\ UNCHANGED <<retries, lastErr, chunkDownloaded>>
          ELSE /\ file' = NoFile /\ pc' = "outer"
               /\ progress' = IF progress = "copied" THEN "refetch" ELSE progress
               /\ UNCHANGED <<result, retries, lastErr, chunkDownloaded>>
     ELSE /\ file' = IF size > 0 /\ currentSize > size THEN FileOf(<<>>) ELSE file
          /\ retries' = 0
          /\ lastErr' = NilErr
          /\ chunkDownloaded' = FALSE
          /\ pc' = "inner"
          /\ progress' = IF progress = "copied" THEN "moved" ELSE progress
          /\ UNCHANGED result
  /\ UNCHANGED <<size, expectedDigest, token, lastStatus, lastRange,
                 blobRequests, authRequests, entrySize, entryValid, registry,
                 probeStatus, tokenURL, tokenReply, authorization, written, slept>>
  /\ UNCHANGED <<exportVars, serviceVars>>

\* the increment of line 338 is lost
RetriesAfterRequest_NoIncrement(currentSize, r) == r

\* the value of retries after the header of the request is built (lines 334-339)
RetriesAfterRequest(currentSize, r) == IF currentSize > 0 THEN r ELSE r + 1

\* lines 345, 372, 379, 390: time.Duration(retries+1) * 2 * time.Second, in
\* seconds, for the value retries has when the attempt has failed
BackoffSeconds(r) == (r + 1) * 2

\* a 206 body is written over the file instead of appended (O_TRUNC for O_APPEND)
FileAfterCopy_Truncating(f, r) == FileOf(r.body)

\* a 200 body is appended to the file instead of replacing it (O_APPEND for O_TRUNC)
FileAfterCopy_Appending(f, r) == FileOf(f.data \o r.body)

\* the destination is removed when the copy fails
FileAfterCopy_RemovedOnError(f, r) ==
  IF r.copyErr THEN NoFile
  ELSE IF r.status = StatusPartialContent THEN FileOf(f.data \o r.body)
  ELSE FileOf(r.body)

\* lines 360-368: the file after the destination is opened and the body copied
FileAfterCopy(f, r) ==
  IF r.status = StatusPartialContent
  THEN FileOf(f.data \o r.body)
  ELSE FileOf(r.body)

\* the class of one attempt
AttemptClass(f, r) ==
  IF r.status = TransportError THEN "transport"
  ELSE IF r.status \notin {StatusOK, StatusPartialContent} THEN "status"
  ELSE IF r.status = StatusPartialContent /\ ~f.exists THEN "open"
  ELSE IF r.copyErr THEN (IF FileAfterCopy(f, r) = f THEN "copy0" ELSE "copyN")
  ELSE "chunk"

\* lastErr of a failed attempt (lines 343, 370, 377, 388)
AttemptError(class, r) ==
  IF class = "transport" THEN WrapError("NETWORK_ERROR", "request failed", NilErr)
  ELSE IF class = "status" THEN WrapError("NETWORK_ERROR", ToString(r.status), NilErr)
  ELSE IF class = "open" THEN WrapError("FILE_OPERATION_FAILED", "open failed", NilErr)
  ELSE WrapError("FILE_OPERATION_FAILED", "copy failed", NilErr)

\* What the attempts made so far amount to:
\* "none": every attempt failed before the destination was opened;
\* "stalled": every attempt failed and left the file as it was;
\* "copied": every attempt delivered a whole body, the latest not yet verified;
\* "refetch": every attempt delivered a whole body and every copy that
\*            reached the expected size failed verification;
\* "moved": anything else.
ProgressAfter(p, class, first) ==
  IF class = "chunk" THEN (IF first \/ p = "refetch" THEN "copied" ELSE "moved")
  ELSE IF class = "copyN" \/ p \in {"moved", "copied", "refetch"} THEN "moved"
  ELSE IF class \in {"open", "copy0"} \/ p = "stalled" THEN "stalled"
  ELSE "none"

\* a status other than 200 and 206 sends the call back to the handshake
PcAfterAttempt_Reauthenticate(class) ==
  IF class = "chunk" THEN "outer" ELSE IF class = "status" THEN "auth" ELSE "inner"

\* lines 346, 373, 380, 391 and 398-400: a failed attempt continues the retry
\* loop, a downloaded chunk leaves it for the outer loop
PcAfterAttempt(class) == IF class = "chunk" THEN "outer" ELSE "inner"

\* lines 322-401: one iteration of the retry loop
Attempt ==
  /\ pc = "inner"
  /\ retries < maxRetries
  /\ blobRequests < MaxRequests
  /\ \E r \in Responses :
       LET currentSize == getFileSize(file)
           class == AttemptClass(file, r)
       IN
       /\ lastRange' = IF currentSize > 0 THEN currentSize ELSE NoRange
       /\ retries' = RetriesAfterRequest(currentSize, retries)
       /\ blobRequests' = blobRequests + 1
       /\ lastStatus' = r.status
       /\ progress' = ProgressAfter(progress, class, blobRequests = 0)
       /\ \/ /\ class = "transport"
             /\ lastErr' = AttemptError(class, r)
             /\ pc' = PcAfterAttempt(class)
             /\ written' = <<>>
             /\ slept' = BackoffSeconds(retries')
             /\ UNCHANGED <<file, chunkDownloaded>>
          \/ /\ class = "status"
             /\ lastErr' = AttemptError(class, r)
             /\ pc' = PcAfterAttempt(class)
             /\ written' = <<>>
             /\ slept' = BackoffSeconds(retries')
             /\ UNCHANGED <<file, chunkDownloaded>>
          \/ /\ class = "open"
             /\ lastErr' = AttemptError(class, r)
             /\ pc' = PcAfterAttempt(class)
             /\ written' = <<>>
             /\ slept' = BackoffSeconds(retries')
             /\ UNCHANGED <<file, chunkDownloaded>>
          \/ /\ class \in {"copy0", "copyN"}
             /\ Len(FileAfterCopy(file, r).data) <= MaxFileLen
             /\ file' = FileAfterCopy(file, r)
             /\ written' = r.body
             /\ slept' = BackoffSeconds(retries')
             /\ lastErr' = AttemptError(class, r)
             /\ pc' = PcAfterAttempt(class)
             /\ UNCHANGED chunkDownloaded
          \/ /\ class = "chunk"
             /\ Len(FileAfterCopy(file, r).data) <= MaxFileLen
             /\ file' = FileAfterCopy(file, r)
             /\ written' = r.body
             /\ chunkDownloaded' = TRUE
             /\ pc' = PcAfterAttempt(class)
             /\ slept' = 0
             /\ UNCHANGED lastErr
  /\ authorization' = AuthorizationHeader(token)
  /\ UNCHANGED <<size, expectedDigest, token, result, authRequests, entrySize,
                 entryValid, registry, probeStatus, tokenURL, tokenReply>>
  /\ UNCHANGED <<exportVars, serviceVars>>

\* lines 322 and 403-405: the retry loop ends without a chunk
Exhausted ==
  /\ pc = "inner"
  /\ retries >= maxRetries
  /\ result' = WrapError("IMAGE_DOWNLOAD_FAILED", "layer chunk download failed", lastErr)
  /\ pc' = "done"
  /\ UNCHANGED <<file, size, expectedDigest, token, retries, lastErr,
                 chunkDownloaded, lastStatus, lastRange, blobRequests,
                 authRequests, entrySize, entryValid, progress, registry,
                 probeStatus, tokenURL, tokenReply, authorization, written, slept>>
  /\ UNCHANGED <<exportVars, serviceVars>>

\* the state in which downloadLayerWithRetry is entered
InitFetch ==
  /\ pc = "start"
  /\ size \in 1..MaxSize
  /\ expectedDigest \in {EmptyDigest, Sha256(Blob(size))}
  /\ file \in {NoFile} \cup {FileOf(d) : d \in SeqsUpTo(Byte, MaxFileLen)}
  /\ entrySize = getFileSize(file)
  /\ entryValid = validateFileIntegrity(file, expectedDigest)
  /\ token = ""
  /\ retries = 0
  /\ lastErr = NilErr
  /\ chunkDownloaded = FALSE
  /\ result = NilErr
  /\ lastStatus = NoStatus
  /\ lastRange = NoRange
  /\ blobRequests = 0
  /\ authRequests = 0
  /\ progress = "none"
  /\ registry = StandardRegistry
  /\ probeStatus = NoStatus
  /\ tokenURL = NoURL
  /\ tokenReply = "none"
  /\ authorization = <<>>
  /\ written = <<>>
  /\ slept = 0
  /\ ExportIdle
  /\ ServiceIdle

NextFetch == PreCheck \/ Authenticate \/ OuterLoop \/ Attempt \/ Exhausted

SpecFetch == InitFetch /\ [][NextFetch]_vars

\* downloadLayerWithRetry for a one-byte blob, against any registry
InitAuth ==
  /\ pc = "start"
  /\ size = 1
  /\ expectedDigest = Sha256(Blob(size))
  /\ file \in {NoFile, FileOf(<<0>>), FileOf(<<1>>)}
  /\ entrySize = getFileSize(file)
  /\ entryValid = validateFileIntegrity(file, expectedDigest)
  /\ token = ""
  /\ retries = 0
  /\ lastErr = NilErr
  /\ chunkDownloaded = FALSE
  /\ result = NilErr
  /\ lastStatus = NoStatus
  /\ lastRange = NoRange
  /\ blobRequests = 0
  /\ authRequests = 0
  /\ progress = "none"
  /\ registry \in Registries
  /\ probeStatus = NoStatus
  /\ tokenURL = NoURL
  /\ tokenReply = "none"
  /\ authorization = <<>>
  /\ written = <<>>
  /\ slept = 0
  /\ ExportIdle
  /\ ServiceIdle

SpecAuth == InitAuth /\ [][NextFetch]_vars

\* ------------------------------------------------------------- the export
FetchIdle ==
  /\ pc = "idle"
  /\ file = NoFile
  /\ size = 0
  /\ expectedDigest = EmptyDigest
  /\ token = ""
  /\ retries = 0
  /\ lastErr = NilErr
  /\ chunkDownloaded = FALSE
  /\ result = NilErr
  /\ lastStatus = NoStatus
  /\ lastRange = NoRange
  /\ blobRequests = 0
  /\ authRequests = 0
  /\ entrySize = 0
  /\ entryValid = FALSE
  /\ progress = "none"
  /\ registry = StandardRegistry
  /\ probeStatus = NoStatus
  /\ tokenURL = NoURL
  /\ tokenReply = "none"
  /\ authorization = <<>>
  /\ written = <<>>
  /\ slept = 0

Indices(q) == 1..Len(q)

Range(q) == {q[i] : i \in Indices(q)}

\* the layers streamImageLayers hands to streamDockerFormatWithReturn filtered
\* by the host-known digests (the earlier exporter, arrutil.Filter)
LayersPassed_Filtered(ls, exist) == SelectSeq(ls, LAMBDA d : d \notin exist)

\* part_003 lines 450-459: the layers streamImageLayers hands to
\* streamDockerFormatWithReturn; existLayers is not consulted
LayersPassed(ls, exist) == ls

\* strings.LastIndex(imageRef, ":"), 1-based; 0 when there is no colon
LastIndex(ref) ==
  IF \E i \in Indices(ref) : ref[i] = ":"
  THEN CHOOSE i \in Indices(ref) : ref[i] = ":" /\ \A j \in Indices(ref) : ref[j] = ":" => j <= i
  ELSE 0

\* index of the first colon, 0 when there is none
FirstIndex(ref) ==
  IF \E i \in Indices(ref) : ref[i] = ":"
  THEN CHOOSE i \in Indices(ref) : ref[i] = ":" /\ \A j \in Indices(ref) : ref[j] = ":" => j >= i
  ELSE 0

\* len(strings.Split(image, ":"))
SplitCount(ref) == Cardinality({i \in Indices(ref) : ref[i] = ":"}) + 1

\* part_002 lines 1039-1041 (CacheImage)
NormalizeImage(ref) == IF SplitCount(ref) # 2 THEN ref \o <<":", "latest">> ELSE ref

\* the layer references come out in reverse order
layerFiles_Reversed(digests) ==
  [i \in Indices(digests) |-> digests[Len(digests) + 1 - i] \o ".tar"]

\* part_003 lines 544-550: the Layers of the manifest entry
layerFiles(digests) == [i \in Indices(digests) |-> digests[i] \o ".tar"]

\* part_002 lines 1213-1219
layerPaths(digests) == [i \in Indices(digests) |-> digests[i] \o ".tar"]

\* only the layers that were requested from the registry are listed
singleManifest_OnlyFetched(ref, digests) ==
  [Config |-> ConfigDigest \o ".json", RepoTags |-> <<ref>>,
   Layers |-> layerFiles(SelectSeq(digests, LAMBDA d : d \in requested))]

\* part_003 lines 541-551
singleManifest(ref, digests) ==
  [Config |-> ConfigDigest \o ".json", RepoTags |-> <<ref>>, Layers |-> layerFiles(digests)]

\* the reference is cut at its first colon
repositoriesOf_FirstColon(ref) ==
  LET i == FirstIndex(ref) IN
  IF i > 0
  THEN {<<SubSeq(ref, 1, i - 1), SubSeq(ref, i + 1, Len(ref)), ConfigDigest>>}
  ELSE {}

\* part_003 lines 554-560: the repositories map, a set of <<repo, tag, config>>
repositoriesOf(ref) ==
  LET i == LastIndex(ref) IN
  IF i > 0
  THEN {<<SubSeq(ref, 1, i - 1), SubSeq(ref, i + 1, Len(ref)), ConfigDigest>>}
  ELSE {}

\* part_002 lines 1238-1243 (strings.Cut at the first colon, tag defaults to latest)
cacheRepositoriesOf(ref) ==
  LET i == FirstIndex(ref)
      repoName == IF i > 0 THEN SubSeq(ref, 1, i - 1) ELSE ref
      tag == IF i > 0 THEN SubSeq(ref, i + 1, Len(ref)) ELSE <<>>
  IN {<<repoName, IF tag = <<>> THEN <<"latest">> ELSE tag, ConfigDigest>>}

InitExport ==
  /\ FetchIdle
  /\ ServiceIdle
  /\ variant \in {"rest", "cache"}
  /\ epc = IF variant = "rest" THEN "load" ELSE "config"
  /\ layers \in SeqsUpTo(Digests, MaxLayers)
  /\ existLayers \in SUBSET Digests
  /\ imageRef \in ImageRefs
  /\ dir \in {d \in [FileNames -> FileStates] : d[ConfigFile] = "absent"}
  /\ concurrency \in IF variant = "rest" THEN {0} ELSE 1..MaxConcurrency
  /\ layerDigests = <<>>
  /\ idx = 0
  /\ requested = {}
  /\ manifest = NoManifest
  /\ repositories = NoRepositories
  /\ runErr = NilErr
  /\ tasks = <<>>
  /\ finished = <<>>
  /\ tar = NoTar
  /\ mi = 0
  /\ li = 0
  /\ handshakes = 0
  /\ rawConfig \in RawConfigs
  /\ configData = <<>>
  /\ ArchiveIdle

\* the process ends with err (LogFatal) or, with nil, normally
ExitWith(err) == epc' = "exit" /\ runErr' = err

\* part_003 lines 139-142 and 409-439: loadImageLayers
LoadImageLayers ==
  /\ variant = "rest" /\ epc = "load"
  /\ \/ epc' = "prepare" /\ runErr' = runErr
     \/ ExitWith(WrapError("NETWORK_ERROR", "ssh failed", NilErr))
  /\ UNCHANGED <<handshakes, variant, configVars, archiveVars, layers, existLayers, imageRef, dir, layerDigests, idx,
                 requested, manifest, repositories, tasks, concurrency, finished,
                 tar, mi, li>>
  /\ UNCHANGED <<fetchVars, serviceVars>>

\* part_003 lines 144-147 and 76-99: prepareImageProcessing
PrepareImageProcessing ==
  /\ variant = "rest" /\ epc = "prepare"
  /\ \/ epc' = "config" /\ runErr' = runErr
     \/ ExitWith(WrapError("NETWORK_ERROR", "manifest fetch failed", NilErr))
     \/ ExitWith(WrapError("IMAGE_PARSE_FAILED", "bad image name", NilErr))
  /\ UNCHANGED <<handshakes, variant, configVars, archiveVars, layers, existLayers, imageRef, dir, layerDigests, idx,
                 requested, manifest, repositories, tasks, concurrency, finished,
                 tar, mi, li>>
  /\ UNCHANGED <<fetchVars, serviceVars>>

\* part_003 lines 441-490: the config file is written and the digests of the
\* layers are recorded
WriteConfig ==
  /\ variant = "rest" /\ epc = "config"
  /\ dir' = [dir EXCEPT ![ConfigFile] = "valid"]
  /\ configData' = Marshal(ConfigFileOf(rawConfig))
  /\ layerDigests' = LayersPassed(layers, existLayers)
  /\ idx' = 1
  /\ epc' = "layers"
  /\ UNCHANGED <<handshakes, variant, rawConfig, archiveVars, layers, existLayers, imageRef, requested, manifest,
                 repositories, runErr, tasks, concurrency, finished, tar, mi, li>>
  /\ UNCHANGED <<fetchVars, serviceVars>>

\* downloadLayerWithRetry lines 219-226 on the state of the file
StateAfterPreCheck(st) == IF st = "corrupt" THEN "absent" ELSE st

\* the error of downloadLayerWithRetry is logged and the loop goes on
LayerLoopStep_Ignore(err) == idx' = idx + 1 /\ UNCHANGED <<epc, runErr>>

\* part_003 lines 528-537 (and main, lines 155-157): the download loop goes
\* on to the next layer after nil and ends the run after an error
LayerLoopStep(err) ==
  IF err = NilErr
  THEN idx' = idx + 1 /\ UNCHANGED <<epc, runErr>>
  ELSE ExitWith(WrapError("IMAGE_DOWNLOAD_FAILED", "layer download failed", err))
       /\ UNCHANGED idx

\* part_003 lines 493-538: one iteration of the download loop.  The call of
\* downloadLayerWithRetry (lines 212-407) is taken whole: it returns nil at
\* once for a valid file; otherwise it shakes hands and requests the blob, and
\* returns nil with a valid file or an error.
DownloadLayer ==
  /\ variant = "rest" /\ epc = "layers" /\ idx <= Len(layerDigests)
  /\ LET d == layerDigests[idx]
         f == LayerFile(d)
     IN
     \/ /\ dir[f] = "valid"
        /\ LayerLoopStep(NilErr)
        /\ UNCHANGED <<dir, requested, handshakes>>
     \/ /\ dir[f] # "valid"
        /\ dir' = [dir EXCEPT ![f] = "valid"]
        /\ requested' = requested \cup {d}
        /\ handshakes' = handshakes + 1
        /\ LayerLoopStep(NilErr)
     \/ /\ dir[f] # "valid"
        /\ dir' = [dir EXCEPT ![f] = StateAfterPreCheck(dir[f])]
        /\ LayerLoopStep(WrapError("AUTH_ERROR", "auth failed", NilErr))
        /\ handshakes' = handshakes + 1
        /\ UNCHANGED requested
     \/ /\ dir[f] # "valid"
        /\ \E st \in FileStates : dir' = [dir EXCEPT ![f] = st]
        /\ requested' = requested \cup {d}
        /\ handshakes' = handshakes + 1
        /\ LayerLoopStep(WrapError("IMAGE_DOWNLOAD_FAILED", "layer chunk download failed", NilErr))
  /\ UNCHANGED <<variant, configVars, archiveVars, layers, existLayers, imageRef, layerDigests, manifest,
                 repositories, tasks, concurrency, finished, tar, mi, li>>
  /\ UNCHANGED <<fetchVars, serviceVars>>

\* part_003 lines 540-595: manifest.json and repositories are written
WriteManifest ==
  /\ variant = "rest" /\ epc = "layers" /\ idx > Len(layerDigests)
  /\ manifest' = [state |-> "array", entries |-> <<singleManifest(imageRef, layerDigests)>>]
  /\ repositories' = [exists |-> TRUE, map |-> repositoriesOf(imageRef)]
  /\ epc' = "assemble"
  /\ UNCHANGED <<handshakes, variant, configVars, archiveVars, layers, existLayers, imageRef, dir, layerDigests, idx,
                 requested, runErr, tasks, concurrency, finished, tar, mi, li>>
  /\ UNCHANGED <<fetchVars, serviceVars>>

\* ------------------------------------------------------- assembleImageTar
\* a file that cannot be opened is skipped instead
AddFileFails_Skipped(d, name) == FALSE

\* part_003 lines 674-701: addFileToTar fails when the file cannot be opened
AddFileFails(d, name) == ~Exists(d, name)

\* part_003 lines 686-698: the archive after the file is added
TarWith(t, name) == [t EXCEPT !.names = Append(@, name)]

\* part_003 lines 598-641: manifest.json is read and parsed, the archive is
\* created, manifest.json and repositories are added
AssembleOpen ==
  /\ epc = "assemble"
  /\ IF manifest.state = "none"
     THEN /\ ExitWith(WrapError("TAR_ASSEMBLY_FAILED", "assembly failed",
                         WrapError("FILE_OPERATION_FAILED", "read manifest.json", NilErr)))
          /\ UNCHANGED <<tar, mi>>
     ELSE IF manifest.state # "array" \/ Len(manifest.entries) = 0
     THEN /\ ExitWith(WrapError("TAR_ASSEMBLY_FAILED", "assembly failed",
                         WrapError("IMAGE_PARSE_FAILED", "parse manifest.json", NilErr)))
          /\ UNCHANGED <<tar, mi>>
     ELSE /\ tar' = [exists |-> TRUE,
                     names |-> <<"manifest.json">> \o
                               (IF repositories.exists THEN <<"repositories">> ELSE <<>>)]
          /\ mi' = 1
          /\ epc' = "asmConfig"
          /\ UNCHANGED runErr
  /\ UNCHANGED <<handshakes, variant, configVars, archiveVars, layers, existLayers, imageRef, dir, layerDigests, idx,
                 requested, manifest, repositories, tasks, concurrency, finished, li>>
  /\ UNCHANGED <<fetchVars, serviceVars>>

\* part_003 lines 644-652: the config file of the next entry is added
AssembleConfig ==
  /\ epc = "asmConfig" /\ mi <= Len(manifest.entries)
  /\ LET config == manifest.entries[mi].Config IN
     IF AddFileFails(dir, config)
     THEN /\ ExitWith(WrapError("TAR_ASSEMBLY_FAILED", "assembly failed",
                         WrapError("TAR_ASSEMBLY_FAILED", "add config", NilErr)))
          /\ UNCHANGED <<tar, li>>
     ELSE /\ tar' = TarWith(tar, config)
          /\ li' = 1
          /\ epc' = "asmLayers"
          /\ UNCHANGED runErr
  /\ UNCHANGED <<handshakes, variant, configVars, archiveVars, layers, existLayers, imageRef, dir, layerDigests, idx,
                 requested, manifest, repositories, tasks, concurrency, finished, mi>>
  /\ UNCHANGED <<fetchVars, serviceVars>>

\* part_003 lines 655-666: the next layer file of the entry is added
AssembleLayer ==
  /\ epc = "asmLayers"
  /\ LET entry == manifest.entries[mi] IN
     IF li > Len(entry.Layers)
     THEN /\ mi' = mi + 1
          /\ epc' = "asmConfig"
          /\ UNCHANGED <<tar, li, runErr>>
     ELSE IF AddFileFails(dir, entry.Layers[li])
     THEN /\ ExitWith(WrapError("TAR_ASSEMBLY_FAILED", "assembly failed",
                         WrapError("TAR_ASSEMBLY_FAILED", "add layer", NilErr)))
          /\ UNCHANGED <<tar, li, mi>>
     ELSE /\ tar' = TarWith(tar, entry.Layers[li])
          /\ li' = li + 1
          /\ UNCHANGED <<epc, mi, runErr>>
  /\ UNCHANGED <<handshakes, variant, configVars, archiveVars, layers, existLayers, imageRef, dir, layerDigests, idx,
                 requested, manifest, repositories, tasks, concurrency, finished>>
  /\ UNCHANGED <<fetchVars, serviceVars>>

\* part_003 lines 669-671: every entry is done
AssembleDone ==
  /\ epc = "asmConfig" /\ mi > Len(manifest.entries)
  /\ ExitWith(NilErr)
  /\ UNCHANGED <<handshakes, variant, configVars, archiveVars, layers, existLayers, imageRef, dir, layerDigests, idx,
                 requested, manifest, repositories, tasks, concurrency, finished,
                 tar, mi, li>>
  /\ UNCHANGED <<fetchVars, serviceVars>>

\* manifest entries handed to the assembler
ManifestEntries ==
  [Config : {ConfigFile}, RepoTags : {<<<<"repo/name", ":", "v1">>>>},
   Layers : SeqsUpTo({LayerFile(d) : d \in Digests}, MaxLayers)]

\* assembleImageTar is called on an output directory in any state
InitAssemble ==
  /\ FetchIdle
  /\ ServiceIdle
  /\ epc = "assemble"
  /\ variant = "rest"
  /\ manifest \in {NoManifest, [state |-> "garbage", entries |-> <<>>]}
                  \cup {[state |-> "array", entries |-> e] : e \in SeqsUpTo(ManifestEntries, MaxEntries)}
  /\ repositories \in {NoRepositories, [exists |-> TRUE, map |-> {}]}
  /\ dir \in [FileNames -> {"absent", "valid"}]
  /\ layers = <<>>
  /\ existLayers = {}
  /\ imageRef = <<>>
  /\ layerDigests = <<>>
  /\ idx = 0
  /\ requested = {}
  /\ runErr = NilErr
  /\ tasks = <<>>
  /\ concurrency = 0
  /\ finished = <<>>
  /\ tar = NoTar
  /\ mi = 0
  /\ li = 0
  /\ handshakes = 0
  /\ ConfigIdle
  /\ ArchiveIdle

NextAssemble == AssembleOpen \/ AssembleConfig \/ AssembleLayer \/ AssembleDone

SpecAssemble == InitAssemble /\ [][NextAssemble]_vars

\* ------------------------------------------- the cache variant (part_002)
Running == {i \in Indices(tasks) : tasks[i] \in {"stat", "copy"}}

\* part_002 lines 1120-1148 (and 1039-1041): the config file is written and
\* the digests of the layers are recorded
CacheWriteConfig ==
  /\ variant = "cache" /\ epc = "config"
  /\ imageRef' = NormalizeImage(imageRef)
  /\ dir' = [dir EXCEPT ![ConfigFile] = "valid"]
  /\ configData' = Marshal(ConfigFileOf(rawConfig))
  /\ layerDigests' = layers
  /\ tasks' = [i \in Indices(layers) |-> "new"]
  /\ idx' = 1
  /\ epc' = "spawn"
  /\ UNCHANGED <<handshakes, variant, rawConfig, archiveVars, layers, existLayers, requested, manifest,
                 repositories, runErr, concurrency, finished, tar, mi, li>>
  /\ UNCHANGED <<fetchVars, serviceVars>>

\* the group has no limit
MayStart_Unlimited(active, limit) == TRUE

\* part_002 line 1151: g.SetLimit(concurrency), g.Go blocks while that many
\* goroutines of the group are active
MayStart(active, limit) == active < limit

\* part_002 lines 1153-1163: g.Go starts the next task once the limit allows
GoTask ==
  /\ variant = "cache" /\ epc = "spawn" /\ idx <= Len(layers)
  /\ MayStart(Cardinality(Running), concurrency)
  /\ tasks' = [tasks EXCEPT ![idx] = "stat"]
  /\ idx' = idx + 1
  /\ UNCHANGED <<handshakes, epc, variant, configVars, archiveVars, layers, existLayers, imageRef, dir, layerDigests,
                 requested, manifest, repositories, runErr, concurrency, finished,
                 tar, mi, li>>
  /\ UNCHANGED <<fetchVars, serviceVars>>

\* part_002 lines 1172-1207: saveLayer up to the opening of the file
SaveLayerOpen(i) ==
  /\ variant = "cache" /\ tasks[i] = "stat"
  /\ LET f == LayerFile(layers[i]) IN
     \/ \* layer.Compressed / layer.Size fails
        /\ tasks' = [tasks EXCEPT ![i] = "failed"]
        /\ finished' = Append(finished, i)
        /\ requested' = requested \cup {layers[i]}
        /\ UNCHANGED dir
     \/ \* os.Stat: the size is right, the layer is skipped
        /\ dir[f] \in {"valid", "corrupt"}
        /\ tasks' = [tasks EXCEPT ![i] = "ok"]
        /\ finished' = Append(finished, i)
        /\ requested' = requested \cup {layers[i]}
        /\ UNCHANGED dir
     \/ \* os.OpenFile(O_CREATE|O_WRONLY)
        /\ dir[f] \notin {"valid", "corrupt"}
        /\ dir' = [dir EXCEPT ![f] = IF @ = "absent" THEN "short" ELSE @]
        /\ tasks' = [tasks EXCEPT ![i] = "copy"]
        /\ requested' = requested \cup {layers[i]}
        /\ UNCHANGED finished
  /\ UNCHANGED <<handshakes, epc, variant, configVars, archiveVars, layers, existLayers, imageRef, layerDigests, idx,
                 manifest, repositories, runErr, concurrency, tar, mi, li>>
  /\ UNCHANGED <<fetchVars, serviceVars>>

\* part_002 lines 1209-1210: io.Copy writes the blob from offset 0 over the
\* file; bytes beyond the blob's size stay
StateAfterSave(st) == IF st = "long" THEN "long" ELSE "valid"

\* part_002 lines 1209-1210: saveLayer copies and returns
SaveLayerCopy(i) ==
  /\ variant = "cache" /\ tasks[i] = "copy"
  /\ LET f == LayerFile(layers[i]) IN
     \/ /\ dir' = [dir EXCEPT ![f] = StateAfterSave(@)]
        /\ tasks' = [tasks EXCEPT ![i] = "ok"]
     \/ /\ UNCHANGED dir
        /\ tasks' = [tasks EXCEPT ![i] = "failed"]
  /\ finished' = Append(finished, i)
  /\ UNCHANGED <<handshakes, epc, variant, configVars, archiveVars, layers, existLayers, imageRef, layerDigests, idx,
                 requested, manifest, repositories, runErr, concurrency, tar, mi, li>>
  /\ UNCHANGED <<fetchVars, serviceVars>>

\* part_002 lines 1221-1226
cacheManifest(ref, digests) ==
  [Config |-> ConfigDigest \o ".json", RepoTags |-> <<ref>>, Layers |-> layerPaths(digests)]

\* the errors of the tasks are dropped
WaitFails_Never(ts) == FALSE

\* part_002 lines 1165-1167: g.Wait returns the first error of the tasks
WaitFails(ts) == \E i \in Indices(ts) : ts[i] = "failed"

\* part_002 lines 1165-1169 and 1221-1252: g.Wait, then writeMetadata
WaitAndWriteMetadata ==
  /\ variant = "cache" /\ epc = "spawn" /\ idx > Len(layers)
  /\ Running = {}
  /\ IF WaitFails(tasks)
     THEN /\ ExitWith(WrapError("", "save layers failed", NilErr))
          /\ UNCHANGED <<manifest, repositories>>
     ELSE /\ manifest' = [state |-> "object",
                          entries |-> <<cacheManifest(imageRef, layerDigests)>>]
          /\ repositories' = [exists |-> TRUE, map |-> cacheRepositoriesOf(imageRef)]
          /\ ExitWith(NilErr)
  /\ UNCHANGED <<handshakes, variant, configVars, archiveVars, layers, existLayers, imageRef, dir, layerDigests, idx,
                 requested, tasks, concurrency, finished, tar, mi, li>>
  /\ UNCHANGED <<fetchVars, serviceVars>>

NextExport ==
  \/ LoadImageLayers
  \/ PrepareImageProcessing
  \/ WriteConfig
  \/ DownloadLayer
  \/ WriteManifest
  \/ AssembleOpen
  \/ AssembleConfig
  \/ AssembleLayer
  \/ AssembleDone
  \/ CacheWriteConfig
  \/ GoTask
  \/ \E i \in Indices(tasks) : SaveLayerOpen(i)
  \/ \E i \in Indices(tasks) : SaveLayerCopy(i)
  \/ WaitAndWriteMetadata

SpecExport == InitExport /\ [][NextExport]_vars

\* ------------------------------------------------- ExportImage (part_002)
\* references passed to ExportImage; main passes image and image + ":7"
ArchiveRefs ==
  { <<"repo/name">>, <<"repo/name", ":", "7">>, <<"other/name", ":", "v1">> }

\* the string of a reference
RECURSIVE Join(_)
Join(parts) == IF parts = <<>> THEN "" ELSE Head(parts) \o Join(Tail(parts))

\* img.ConfigName() of the image cached under a reference
ConfigNameOf(image) ==
  IF image[1] = "other/name" THEN "sha256:e"
  ELSE IF image[3] = "7" THEN "sha256:d"
  ELSE ConfigDigest

\* the layer digests of the image cached under a reference
LayersOf(image) ==
  IF image[3] = "7" THEN <<"sha256:a", "sha256:b">> ELSE <<"sha256:a">>

\* part_002 lines 1221-1226: the manifest writeMetadata left in the cache
CachedManifest(image) ==
  [Config |-> ConfigNameOf(image) \o ".json", RepoTags |-> <<image>>,
   Layers |-> layerPaths(LayersOf(image))]

\* part_002 line 981: strings.Cut(image, ":"), the part before the first colon
RepoNameOf(image) ==
  LET i == FirstIndex(image) IN IF i > 0 THEN SubSeq(image, 1, i - 1) ELSE image

\* part_002 lines 981-984: the part after the first colon, latest when empty
TagOf(image) ==
  LET i == FirstIndex(image)
      tag == IF i > 0 THEN SubSeq(image, i + 1, Len(image)) ELSE <<>>
  IN IF tag = <<>> THEN <<"latest">> ELSE tag

\* part_002 line 985: allRepositories[repoName] = map[string]string{tag: image}
RepositoriesPut(all, image) ==
  {t \in all : t[1] # RepoNameOf(image)}
    \cup {<<RepoNameOf(image), TagOf(image), Join(image)>>}

InitArchive ==
  /\ FetchIdle
  /\ ServiceIdle
  /\ ConfigIdle
  /\ epc = "images"
  /\ variant = "cache"
  /\ images \in SeqsUpTo(ArchiveRefs, MaxImages)
  /\ cached \in SUBSET {NormalizeImage(r) : r \in ArchiveRefs}
  /\ dir \in {d \in [FileNames -> {"absent", "valid"}] : d[ConfigFile] = "absent"}
  /\ allManifest = <<>>
  /\ allRepositories = {}
  /\ archiveLayers = <<>>
  /\ tar = [exists |-> TRUE, names |-> <<>>]
  /\ idx = 1
  /\ li = 0
  /\ layers = <<>>
  /\ existLayers = {}
  /\ imageRef = <<>>
  /\ layerDigests = <<>>
  /\ requested = {}
  /\ manifest = NoManifest
  /\ repositories = NoRepositories
  /\ runErr = NilErr
  /\ tasks = <<>>
  /\ concurrency = 0
  /\ finished = <<>>
  /\ mi = 0
  /\ handshakes = 0

\* part_002 lines 944-990: one iteration of the loop over the images
ExportImageStep ==
  /\ epc = "images" /\ idx <= Len(images)
  /\ LET image == NormalizeImage(images[idx]) IN
     IF image \notin cached
     THEN /\ ExitWith(WrapError("", "read manifest failed", NilErr))
          /\ UNCHANGED <<idx, allManifest, allRepositories, archiveLayers, tar>>
     ELSE /\ allManifest' = Append(allManifest, CachedManifest(image))
          /\ tar' = TarWith(tar, CachedManifest(image).Config)
          /\ allRepositories' = RepositoriesPut(allRepositories, image)
          /\ archiveLayers' = archiveLayers \o CachedManifest(image).Layers
          /\ idx' = idx + 1
          /\ UNCHANGED <<epc, runErr>>
  /\ UNCHANGED <<variant, layers, existLayers, imageRef, dir, layerDigests, requested,
                 manifest, repositories, tasks, concurrency, finished, mi, li,
                 handshakes, configVars, images, cached>>
  /\ UNCHANGED <<fetchVars, serviceVars>>

\* part_002 lines 992-1006: manifest.json and repositories go into the archive
ExportImageMetadata ==
  /\ epc = "images" /\ idx > Len(images)
  /\ tar' = TarWith(TarWith(tar, "manifest.json"), "repositories")
  /\ epc' = "archive-layers"
  /\ li' = 1
  /\ UNCHANGED <<variant, layers, existLayers, imageRef, dir, layerDigests, idx, requested,
                 manifest, repositories, runErr, tasks, concurrency, finished, mi,
                 handshakes, configVars, archiveVars>>
  /\ UNCHANGED <<fetchVars, serviceVars>>

\* part_002 lines 1008-1016: one layer file goes into the archive
ExportImageLayer ==
  /\ epc = "archive-layers" /\ li <= Len(archiveLayers)
  /\ IF ~Exists(dir, archiveLayers[li])
     THEN /\ ExitWith(WrapError("", "read layer failed", NilErr))
          /\ UNCHANGED <<tar, li>>
     ELSE /\ tar' = TarWith(tar, archiveLayers[li])
          /\ li' = li + 1
          /\ UNCHANGED <<epc, runErr>>
  /\ UNCHANGED <<variant, layers, existLayers, imageRef, dir, layerDigests, idx, requested,
                 manifest, repositories, tasks, concurrency, finished, mi,
                 handshakes, configVars, archiveVars>>
  /\ UNCHANGED <<fetchVars, serviceVars>>

\* part_002 line 1017: return nil
ExportImageDone ==
  /\ epc = "archive-layers" /\ li > Len(archiveLayers)
  /\ ExitWith(NilErr)
  /\ UNCHANGED <<variant, layers, existLayers, imageRef, dir, layerDigests, idx, requested,
                 manifest, repositories, tasks, concurrency, finished, tar, mi, li,
                 handshakes, configVars, archiveVars>>
  /\ UNCHANGED <<fetchVars, serviceVars>>

NextArchive ==
  ExportImageStep \/ ExportImageMetadata \/ ExportImageLayer \/ ExportImageDone

SpecArchive == InitArchive /\ [][NextArchive]_vars

\* --------------------------------------------- selectPlatformImage (part_003)
\* m.Platform == nil
NoPlatform == [nil |-> TRUE, OS |-> <<>>, Architecture |-> <<>>, Variant |-> <<>>]

PlatformOf(os, arch, v) ==
  [nil |-> FALSE, OS |-> os, Architecture |-> arch, Variant |-> v]

\* the platform records of the entries of an index
PlatformRecords ==
  { NoPlatform,
    PlatformOf(<<"linux">>, <<"amd64">>, <<>>),
    PlatformOf(<<"linux">>, <<"arm">>, <<"v7">>),
    PlatformOf(<<"linux">>, <<"arm64">>, <<>>) }

\* values of options.Platform
PlatformStrings ==
  { <<>>, <<"linux">>, <<"linux", "/", "amd64">>, <<"linux", "/", "arm", "/", "v7">> }

\* part_003 lines 722-743: the test the loop makes on an entry with a
\* platform record
PlatformMatches(m, target) ==
  IF target # <<>>
  THEN LET platformParts == Split(target, "/") IN
       /\ Len(platformParts) >= 2
       /\ m.OS = platformParts[1]
       /\ m.Architecture = platformParts[2]
       /\ m.Variant = (IF Len(platformParts) >= 3 THEN platformParts[3] ELSE <<>>)
  ELSE m.OS = <<"linux">> /\ m.Architecture = <<"amd64">>

\* part_003 lines 746-748: the first entry stands in when none was selected
FallbackDesc(sel, ms) == IF sel = 0 /\ Len(ms) > 0 THEN 1 ELSE sel

InitIndex ==
  /\ FetchIdle
  /\ ExportIdle
  /\ AppIdle
  /\ StreamIdle
  /\ SSHIdle
  /\ ContextIdle
  /\ ipc = "index"
  /\ manifests \in SeqsUpTo(PlatformRecords, MaxManifests)
  /\ platform \in PlatformStrings
  /\ mPos = 0
  /\ selectedDesc = 0
  /\ indexResult = "none"
  /\ indexErr = NilErr

\* part_003 lines 705-714: desc.ImageIndex and index.IndexManifest
GetIndexManifest ==
  /\ ipc = "index"
  /\ \/ /\ ipc' = "loop" /\ mPos' = 1
        /\ UNCHANGED <<indexResult, indexErr>>
     \/ /\ ipc' = "done" /\ indexResult' = "error"
        /\ indexErr' = WrapError("IMAGE_PARSE_FAILED", "get image index failed", NilErr)
        /\ UNCHANGED mPos
  /\ UNCHANGED <<manifests, platform, selectedDesc>>
  /\ UNCHANGED <<fetchVars, exportVars, appVars, streamVars, sshVars, contextVars>>

\* part_003 lines 718-744: one iteration of the loop over the entries, or its end
SelectLoop ==
  /\ ipc = "loop"
  /\ IF mPos > Len(manifests)
     THEN ipc' = "selected" /\ UNCHANGED <<mPos, selectedDesc>>
     ELSE IF ~manifests[mPos].nil /\ PlatformMatches(manifests[mPos], platform)
     THEN selectedDesc' = mPos /\ ipc' = "selected" /\ UNCHANGED mPos
     ELSE mPos' = mPos + 1 /\ UNCHANGED <<ipc, selectedDesc>>
  /\ UNCHANGED <<manifests, platform, indexResult, indexErr>>
  /\ UNCHANGED <<fetchVars, exportVars, appVars, streamVars, sshVars, contextVars>>

\* part_003 lines 746-762: the fallback, the log line that reads
\* selectedDesc.Platform.OS, and index.Image
SelectImage ==
  /\ ipc = "selected"
  /\ selectedDesc' = FallbackDesc(selectedDesc, manifests)
  /\ ipc' = "done"
  /\ IF selectedDesc' = 0
     THEN /\ indexResult' = "error"
          /\ indexErr' = WrapError("IMAGE_PARSE_FAILED", "no suitable platform image", NilErr)
     ELSE IF manifests[selectedDesc'].nil
     THEN indexResult' = "panic" /\ UNCHANGED indexErr
     ELSE \/ indexResult' = "image" /\ UNCHANGED indexErr
          \/ /\ indexResult' = "error"
             /\ indexErr' = WrapError("IMAGE_PARSE_FAILED", "get selected image failed", NilErr)
  /\ UNCHANGED <<manifests, platform, mPos>>
  /\ UNCHANGED <<fetchVars, exportVars, appVars, streamVars, sshVars, contextVars>>

NextIndex == GetIndexManifest \/ SelectLoop \/ SelectImage

SpecIndex == InitIndex /\ [][NextIndex]_vars

\* ------------------------- initializeApplication (part_003), LoadConfig (config.go)
\* config.go lines 39-61 (the password stands for the literal of line 46)
DefaultConfig ==
  [Host |-> "192.168.44.213", Port |-> 22, Username |-> "root", Password |-> "secret",
   KeyFile |-> "", MaxRetries |-> 5, RetryDelay |-> 2, Concurrency |-> 1,
   OutputDir |-> "output"]

\* a JSON file that sets the fields in has to the values of over
JsonFile(has, over) ==
  [state |-> "json", has |-> has,
   values |-> [f \in DOMAIN NilConfig |-> IF f \in DOMAIN over THEN over[f] ELSE NilConfig[f]]]

\* the files configPath may name
ConfigFiles ==
  { [state |-> st, has |-> {}, values |-> NilConfig] : st \in {"absent", "unopenable", "garbage"} }
  \cup { JsonFile({}, [Host |-> ""]),
         JsonFile({"Host"}, [Host |-> ""]),
         JsonFile({"Port"}, [Port |-> 70000]),
         JsonFile({"Password"}, [Password |-> ""]),
         JsonFile({"MaxRetries"}, [MaxRetries |-> 0 - 1]),
         JsonFile({"Concurrency"}, [Concurrency |-> 0]),
         JsonFile({"OutputDir"}, [OutputDir |-> "/data"]) }

\* config.go lines 94-97: Decode overwrites the fields the file names
Decode(cfg, cf) ==
  [f \in DOMAIN cfg |-> IF f \in cf.has THEN cf.values[f] ELSE cfg[f]]

\* the value of a string of decimal digits
RECURSIVE Decimal(_)
Decimal(str) ==
  IF str = <<>> THEN 0
  ELSE 10 * Decimal(SubSeq(str, 1, Len(str) - 1))
         + (CHOOSE n \in 0..9 : ToString(n) = str[Len(str)])

\* strconv.Atoi on a string given as the sequence of its characters
Atoi(str) ==
  IF str # <<>> /\ \A i \in 1..Len(str) : \E n \in 0..9 : ToString(n) = str[i]
  THEN [ok |-> TRUE, n |-> Decimal(str)]
  ELSE [ok |-> FALSE, n |-> 0]

\* config.go lines 113-167, for the variables of env
overrideFromEnv(cfg, e) ==
  [cfg EXCEPT
     !.Port = IF e.SSH_PORT # <<>> /\ Atoi(e.SSH_PORT).ok THEN Atoi(e.SSH_PORT).n ELSE @,
     !.KeyFile = IF e.SSH_KEY_FILE # "" THEN e.SSH_KEY_FILE ELSE @,
     !.Concurrency = IF e.DOWNLOAD_CONCURRENCY # <<>> /\ Atoi(e.DOWNLOAD_CONCURRENCY).ok
                     THEN Atoi(e.DOWNLOAD_CONCURRENCY).n ELSE @]

\* config.go lines 170-221: the error validateConfig returns
validateConfig(cfg, keys, ds) ==
  IF cfg.Host = "" THEN WrapError("CONFIG_ERROR", "ssh host empty", NilErr)
  ELSE IF cfg.Port <= 0 \/ cfg.Port > 65535
  THEN WrapError("CONFIG_ERROR", "ssh port invalid", NilErr)
  ELSE IF cfg.Username = "" THEN WrapError("CONFIG_ERROR", "ssh username empty", NilErr)
  ELSE IF cfg.Password = "" /\ cfg.KeyFile = ""
  THEN WrapError("CONFIG_ERROR", "no password and no key file", NilErr)
  ELSE IF cfg.KeyFile # "" /\ cfg.KeyFile \notin keys
  THEN WrapError("CONFIG_ERROR", "key file missing", NilErr)
  ELSE IF cfg.MaxRetries < 0 THEN WrapError("CONFIG_ERROR", "max retries negative", NilErr)
  ELSE IF cfg.RetryDelay < 0 THEN WrapError("CONFIG_ERROR", "retry delay negative", NilErr)
  ELSE IF cfg.Concurrency <= 0 THEN WrapError("CONFIG_ERROR", "concurrency not positive", NilErr)
  ELSE IF cfg.OutputDir # "" /\ ds[cfg.OutputDir] = "blocked"
  THEN WrapError("FILE_OPERATION_FAILED", "cannot create output dir", NilErr)
  ELSE NilErr

\* config.go lines 210-218: os.MkdirAll creates the missing output directory
DirsAfterValidate(cfg, keys, ds) ==
  IF validateConfig(cfg, keys, ds) = NilErr /\ cfg.OutputDir # ""
  THEN [ds EXCEPT ![cfg.OutputDir] = "exists"]
  ELSE ds

\* config.go lines 82-110: the config and the error LoadConfig returns, and
\* the directories it leaves
LoadConfig(cf, e, keys, ds) ==
  IF cf.state = "unopenable"
  THEN [cfg |-> NilConfig, dirs |-> ds,
        err |-> WrapError("FILE_OPERATION_FAILED", "open config cf failed", NilErr)]
  ELSE IF cf.state = "garbage"
  THEN [cfg |-> NilConfig, dirs |-> ds,
        err |-> WrapError("CONFIG_ERROR", "parse config cf failed", NilErr)]
  ELSE LET loaded == IF cf.state = "json" THEN Decode(DefaultConfig, cf) ELSE DefaultConfig
           cfg == overrideFromEnv(loaded, e)
           err == validateConfig(cfg, keys, ds)
       IN [cfg |-> IF err = NilErr THEN cfg ELSE NilConfig, err |-> err,
           dirs |-> DirsAfterValidate(cfg, keys, ds)]

\* the config LoadConfig returned is used whatever the error
ConfigAfterLoad_Kept(cfg, err) == cfg

\* part_003 lines 46-51: the default configuration replaces a failed load
ConfigAfterLoad(cfg, err) == IF err # NilErr THEN DefaultConfig ELSE cfg

InitApp ==
  /\ FetchIdle
  /\ ExportIdle
  /\ IndexIdle
  /\ StreamIdle
  /\ SSHIdle
  /\ ContextIdle
  /\ apc = "load"
  /\ configFile \in ConfigFiles
  /\ env \in [SSH_PORT : {<<>>, <<"a">>, <<"0">>, <<"2", "2">>},
              DOWNLOAD_CONCURRENCY : {<<>>, <<"0">>, <<"4">>},
              SSH_KEY_FILE : {"", "id_rsa"}]
  /\ keyFiles \in SUBSET {"id_rsa"}
  /\ dirs \in [{"output", "/data"} -> {"exists", "creatable", "blocked"}]
  /\ globalConfig = NilConfig
  /\ loadErr = NilErr
  /\ appErr = NilErr

\* part_003 lines 44-56: LoadConfig, the fallback, the logger
LoadGlobalConfig ==
  /\ apc = "load"
  /\ LET r == LoadConfig(configFile, env, keyFiles, dirs) IN
     /\ globalConfig' = ConfigAfterLoad(r.cfg, r.err)
     /\ loadErr' = r.err
     /\ dirs' = r.dirs
  /\ apc' = "validate"
  /\ UNCHANGED <<configFile, env, keyFiles, appErr>>
  /\ UNCHANGED <<fetchVars, exportVars, indexVars, streamVars, sshVars, contextVars>>

\* part_003 lines 58-72: Validate, the clients, the return
ValidateGlobalConfig ==
  /\ apc = "validate"
  /\ LET err == validateConfig(globalConfig, keyFiles, dirs) IN
     /\ appErr' = IF err # NilErr
                  THEN WrapError("CONFIG_VALIDATE_FAILED", "config validation failed", err)
                  ELSE NilErr
     /\ dirs' = DirsAfterValidate(globalConfig, keyFiles, dirs)
  /\ apc' = "done"
  /\ UNCHANGED <<configFile, env, keyFiles, globalConfig, loadErr>>
  /\ UNCHANGED <<fetchVars, exportVars, indexVars, streamVars, sshVars, contextVars>>

NextApp == LoadGlobalConfig \/ ValidateGlobalConfig

SpecApp == InitApp /\ [][NextApp]_vars

\* ------------------------- handleSSHExecuteStream (part_002), ExecuteCommandStream (part_001)
\* the capacity of outputChan, standing for the 100 of part_002 line 250
ChanCap == 2

\* the chunks one pipe reader delivers at most
MaxChunks == 1

\* goroutine p executes outputChan <- msg and goes on at next: the send
\* waits while the buffer is full and panics on a closed channel
ChanSend(p, msg, next) ==
  /\ streamPanic = ""
  /\ IF closes > 0
     THEN /\ streamPanic' = "send on closed channel"
          /\ spc' = [spc EXCEPT ![p] = "panic"]
          /\ UNCHANGED outputChan
     ELSE /\ Len(outputChan) < ChanCap
          /\ outputChan' = Append(outputChan, msg)
          /\ spc' = [spc EXCEPT ![p] = next]
          /\ UNCHANGED streamPanic
  /\ UNCHANGED closes

\* goroutine p executes its deferred close(outputChan), which panics on a
\* channel that is closed already
ChanClose(p) ==
  /\ streamPanic = ""
  /\ closes' = closes + 1
  /\ IF closes > 0
     THEN /\ streamPanic' = "close of closed channel"
          /\ spc' = [spc EXCEPT ![p] = "panic"]
     ELSE /\ spc' = [spc EXCEPT ![p] = "done"]
          /\ UNCHANGED streamPanic
  /\ UNCHANGED outputChan

InitStream ==
  /\ FetchIdle
  /\ ExportIdle
  /\ IndexIdle
  /\ AppIdle
  /\ SSHIdle
  /\ ContextIdle
  /\ spc = [p \in {"exec", "stdout", "stderr", "consumer"} |->
             IF p \in {"exec", "consumer"} THEN "run" ELSE "off"]
  /\ outputChan = <<>>
  /\ closes = 0
  /\ streamPanic = ""
  /\ sent = [p \in {"stdout", "stderr"} |-> 0]

\* part_001 lines 243-306: Connect, NewSession, the pipes or Start fail and
\* the error is returned, or the command starts and both readers are spawned
StreamStart ==
  /\ streamPanic = ""
  /\ spc["exec"] = "run"
  /\ \/ spc' = [spc EXCEPT !["exec"] = "failed"]
     \/ spc' = [spc EXCEPT !["exec"] = "wait", !["stdout"] = "read", !["stderr"] = "read"]
  /\ UNCHANGED <<outputChan, closes, streamPanic, sent>>
  /\ UNCHANGED <<fetchVars, exportVars, indexVars, appVars, sshVars, contextVars>>

\* part_002 lines 255-257: the handler goroutine reports the error
StreamReportError ==
  /\ spc["exec"] = "failed"
  /\ ChanSend("exec", "exec error", "close")
  /\ UNCHANGED sent
  /\ UNCHANGED <<fetchVars, exportVars, indexVars, appVars, sshVars, contextVars>>

\* part_001 lines 277-291: the stdout reader sends a chunk, or meets EOF,
\* or reports a read error
StdoutRead ==
  /\ spc["stdout"] = "read"
  /\ \/ /\ sent["stdout"] < MaxChunks
        /\ ChanSend("stdout", "out", "read")
        /\ sent' = [sent EXCEPT !["stdout"] = @ + 1]
     \/ /\ streamPanic = ""
        /\ spc' = [spc EXCEPT !["stdout"] = "close"]
        /\ UNCHANGED <<outputChan, closes, streamPanic, sent>>
     \/ /\ ChanSend("stdout", "read error", "close")
        /\ UNCHANGED sent
  /\ UNCHANGED <<fetchVars, exportVars, indexVars, appVars, sshVars, contextVars>>

\* part_001 line 278: the deferred close of the stdout reader
StdoutClose ==
  /\ spc["stdout"] = "close"
  /\ ChanClose("stdout")
  /\ UNCHANGED sent
  /\ UNCHANGED <<fetchVars, exportVars, indexVars, appVars, sshVars, contextVars>>

\* part_001 lines 294-305: the stderr reader sends a chunk or ends
StderrRead ==
  /\ spc["stderr"] = "read"
  /\ \/ /\ sent["stderr"] < MaxChunks
        /\ ChanSend("stderr", "STDERR: out", "read")
        /\ sent' = [sent EXCEPT !["stderr"] = @ + 1]
     \/ /\ streamPanic = ""
        /\ spc' = [spc EXCEPT !["stderr"] = "done"]
        /\ UNCHANGED <<outputChan, closes, streamPanic, sent>>
  /\ UNCHANGED <<fetchVars, exportVars, indexVars, appVars, sshVars, contextVars>>

\* part_001 lines 308-319: session.Wait returns; an error is sent as the
\* exit status message; ExecuteCommandStream returns nil
StreamWait ==
  /\ spc["exec"] = "wait"
  /\ \/ /\ streamPanic = ""
        /\ spc' = [spc EXCEPT !["exec"] = "close"]
        /\ UNCHANGED <<outputChan, closes, streamPanic>>
     \/ ChanSend("exec", "exit status", "close")
  /\ UNCHANGED sent
  /\ UNCHANGED <<fetchVars, exportVars, indexVars, appVars, sshVars, contextVars>>

\* part_002 line 254: the deferred close of the handler goroutine
StreamClose ==
  /\ spc["exec"] = "close"
  /\ ChanClose("exec")
  /\ UNCHANGED sent
  /\ UNCHANGED <<fetchVars, exportVars, indexVars, appVars, sshVars, contextVars>>

\* part_002 lines 260-265: the range loop takes a message and writes it, or
\* breaks on a write error, or ends on the closed and drained channel
StreamConsume ==
  /\ streamPanic = ""
  /\ spc["consumer"] = "run"
  /\ \/ /\ outputChan # <<>>
        /\ outputChan' = Tail(outputChan)
        /\ \/ UNCHANGED spc
           \/ spc' = [spc EXCEPT !["consumer"] = "done"]
     \/ /\ outputChan = <<>>
        /\ closes > 0
        /\ spc' = [spc EXCEPT !["consumer"] = "done"]
        /\ UNCHANGED outputChan
  /\ UNCHANGED <<closes, streamPanic, sent>>
  /\ UNCHANGED <<fetchVars, exportVars, indexVars, appVars, sshVars, contextVars>>

NextStream ==
  \/ StreamStart
  \/ StreamReportError
  \/ StdoutRead
  \/ StdoutClose
  \/ StderrRead
  \/ StreamWait
  \/ StreamClose
  \/ StreamConsume

SpecStream == InitStream /\ [][NextStream]_vars

\* ------------------------- SSHClient and SSHManager (part_001)
ClientOps == {"Connect", "Disconnect", "ExecuteCommand", "GetConnectionInfo"}

ManagerOps ==
  {"AddConnection", "GetConnection", "RemoveConnection", "ListConnections",
   "CleanupInactiveConnections"}

\* the lock, unlock and body steps of each operation, in program order
Code(o) ==
  CASE o = "Connect" ->
         << <<"lock", "cli", "w">>, <<"do", "connect", "">>, <<"unlock", "cli", "w">> >>
    [] o = "Disconnect" ->
         << <<"lock", "cli", "w">>, <<"do", "disconnect", "">>, <<"unlock", "cli", "w">> >>
    [] o = "ExecuteCommand" ->
         << <<"lock", "cli", "w">>, <<"do", "connect", "">>, <<"unlock", "cli", "w">>,
            <<"lock", "cli", "w">>, <<"do", "run", "">>, <<"unlock", "cli", "w">> >>
    [] o = "GetConnectionInfo" ->
         << <<"lock", "cli", "r">>, <<"do", "info", "">>, <<"unlock", "cli", "r">> >>
    [] o = "AddConnection" ->
         << <<"lock", "mgr", "w">>, <<"do", "add", "">>, <<"unlock", "mgr", "w">> >>
    [] o = "GetConnection" ->
         << <<"lock", "mgr", "r">>, <<"do", "get", "">>, <<"unlock", "mgr", "r">> >>
    [] o = "RemoveConnection" ->
         << <<"lock", "mgr", "w">>, <<"do", "lookup", "">>,
            <<"lock", "cli", "w">>, <<"do", "disconnect", "">>, <<"unlock", "cli", "w">>,
            <<"do", "delete", "">>, <<"unlock", "mgr", "w">> >>
    [] o = "ListConnections" ->
         << <<"lock", "mgr", "r">>, <<"do", "lookup", "">>,
            <<"lock", "cli", "r">>, <<"do", "info", "">>, <<"unlock", "cli", "r">>,
            <<"unlock", "mgr", "r">> >>
    [] o = "CleanupInactiveConnections" ->
         << <<"lock", "mgr", "w">>, <<"do", "stale", "">>,
            <<"lock", "cli", "w">>, <<"do", "disconnect", "">>, <<"unlock", "cli", "w">>,
            <<"do", "delete", "">>, <<"unlock", "mgr", "w">> >>
    [] OTHER -> << >>

\* the step thread t is at
Instr(t) ==
  IF tpc[t] \in 1..Len(Code(top[t])) THEN Code(top[t])[tpc[t]] ELSE <<"none", "", "">>

\* sync.RWMutex: Lock waits for the writer and the readers to leave; RLock
\* waits for the writer and for every writer that waits in Lock
CanLock(l, m, t) ==
  LET k == IF l = "mgr" THEN mgrLock ELSE cliLock IN
  IF m = "w"
  THEN k.w = 0 /\ k.r = {}
  ELSE k.w = 0 /\ ~\E u \in Threads \ {t} : Instr(u) = <<"lock", l, "w">>

\* the lock after Lock (m = "w") or RLock (m = "r") by thread t
Locked(k, m, t) == IF m = "w" THEN [k EXCEPT !.w = t] ELSE [k EXCEPT !.r = @ \cup {t}]

\* the unlock leaves the lock held
Unlocked_Held(k, m, t) == k

\* the lock after Unlock (m = "w") or RUnlock (m = "r") by thread t
Unlocked(k, m, t) == IF m = "w" THEN [k EXCEPT !.w = 0] ELSE [k EXCEPT !.r = @ \ {t}]

\* part_001 lines 93-137: the body of Connect; dialed says whether the key
\* was read and ssh.Dial succeeded
ConnectBody(st, dialed) ==
  IF st.connected /\ st.client # "nil" THEN st
  ELSE IF dialed THEN [client |-> "live", connected |-> TRUE]
  ELSE st

\* the client is dropped and connected stays as it was
DisconnectBody_Connected(st) ==
  IF st.client # "nil" THEN [st EXCEPT !.client = "nil"] ELSE st

\* part_001 lines 146-158: the body of Disconnect
DisconnectBody(st) ==
  IF st.client # "nil" THEN [client |-> "nil", connected |-> FALSE] ELSE st

InitSSH ==
  /\ FetchIdle
  /\ ExportIdle
  /\ IndexIdle
  /\ AppIdle
  /\ StreamIdle
  /\ ContextIdle
  /\ tpc = [t \in Threads |-> 0]
  /\ top = [t \in Threads |-> ""]
  /\ tret = [t \in Threads |-> "ok"]
  /\ mgrLock = [w |-> 0, r |-> {}]
  /\ cliLock = [w |-> 0, r |-> {}]
  /\ client \in {"nil", "live"}
  /\ connected = (client = "live")
  /\ inMap \in BOOLEAN
  /\ nilUse = FALSE

\* thread t calls one of the operations
Call(t) ==
  /\ tpc[t] = 0
  /\ \E o \in ClientOps \cup ManagerOps : top' = [top EXCEPT ![t] = o]
  /\ tpc' = [tpc EXCEPT ![t] = 1]
  /\ UNCHANGED <<tret, mgrLock, cliLock, client, connected, inMap, nilUse>>
  /\ UNCHANGED <<fetchVars, exportVars, indexVars, appVars, streamVars, contextVars>>

\* thread t gets the lock it waits for
Acquire(t) ==
  /\ Instr(t)[1] = "lock"
  /\ CanLock(Instr(t)[2], Instr(t)[3], t)
  /\ IF Instr(t)[2] = "mgr"
     THEN mgrLock' = Locked(mgrLock, Instr(t)[3], t) /\ UNCHANGED cliLock
     ELSE cliLock' = Locked(cliLock, Instr(t)[3], t) /\ UNCHANGED mgrLock
  /\ tpc' = [tpc EXCEPT ![t] = @ + 1]
  /\ UNCHANGED <<top, tret, client, connected, inMap, nilUse>>
  /\ UNCHANGED <<fetchVars, exportVars, indexVars, appVars, streamVars, contextVars>>

\* thread t executes the statements it holds the lock for
Body(t) ==
  /\ Instr(t)[1] = "do"
  /\ LET b == Instr(t)[2]
         last == Len(Code(top[t]))
         st == [client |-> client, connected |-> connected]
     IN
     \/ /\ b = "connect"
        /\ \E dialed \in BOOLEAN :
             /\ client' = ConnectBody(st, dialed).client
             /\ connected' = ConnectBody(st, dialed).connected
             /\ tret' = [tret EXCEPT ![t] = IF connected' THEN "ok" ELSE "error"]
        /\ tpc' = [tpc EXCEPT ![t] = @ + 1]
        /\ UNCHANGED <<inMap, nilUse>>
     \/ /\ b = "disconnect"
        /\ client' = DisconnectBody(st).client
        /\ connected' = DisconnectBody(st).connected
        /\ tpc' = [tpc EXCEPT ![t] = @ + 1]
        /\ UNCHANGED <<tret, inMap, nilUse>>
     \/ /\ b = "run"
        /\ IF client = "nil"
           THEN nilUse' = TRUE /\ tret' = [tret EXCEPT ![t] = "panic"]
           ELSE UNCHANGED nilUse /\ \E r \in {"ok", "error"} : tret' = [tret EXCEPT ![t] = r]
        /\ tpc' = [tpc EXCEPT ![t] = @ + 1]
        /\ UNCHANGED <<client, connected, inMap>>
     \/ /\ b \in {"info", "get"}
        /\ tpc' = [tpc EXCEPT ![t] = @ + 1]
        /\ UNCHANGED <<tret, client, connected, inMap, nilUse>>
     \/ /\ b \in {"add", "delete"}
        /\ inMap' = (b = "add")
        /\ tpc' = [tpc EXCEPT ![t] = @ + 1]
        /\ UNCHANGED <<tret, client, connected, nilUse>>
     \/ /\ b = "lookup"
        /\ tpc' = [tpc EXCEPT ![t] = IF inMap THEN @ + 1 ELSE last]
        /\ UNCHANGED <<tret, client, connected, inMap, nilUse>>
     \/ /\ b = "stale"
        /\ \/ inMap /\ tpc' = [tpc EXCEPT ![t] = @ + 1]
           \/ tpc' = [tpc EXCEPT ![t] = last]
        /\ UNCHANGED <<tret, client, connected, inMap, nilUse>>
  /\ UNCHANGED <<top, mgrLock, cliLock>>
  /\ UNCHANGED <<fetchVars, exportVars, indexVars, appVars, streamVars, contextVars>>

\* thread t releases the lock; an operation that failed returns
Release(t) ==
  /\ Instr(t)[1] = "unlock"
  /\ IF Instr(t)[2] = "mgr"
     THEN mgrLock' = Unlocked(mgrLock, Instr(t)[3], t) /\ UNCHANGED cliLock
     ELSE cliLock' = Unlocked(cliLock, Instr(t)[3], t) /\ UNCHANGED mgrLock
  /\ tpc' = [tpc EXCEPT ![t] = IF tret[t] # "ok" THEN Len(Code(top[t])) + 1 ELSE @ + 1]
  /\ UNCHANGED <<top, tret, client, connected, inMap, nilUse>>
  /\ UNCHANGED <<fetchVars, exportVars, indexVars, appVars, streamVars, contextVars>>

NextSSH == \E t \in Threads : Call(t) \/ Acquire(t) \/ Body(t) \/ Release(t)

SpecSSH == InitSSH /\ [][NextSSH]_vars

\* ------------------------- handleSSHExecute (part_002), ExecuteCommandWithContext (part_001)
\* the largest req.Timeout
MaxTimeout == 2

\* part_001 lines 220-221: the buffer of resultChan and of errChan
ChanBuffer == 1

\* part_002 lines 199-203: the timeout of the context, in seconds
TimeoutOf(t) == IF t = 0 THEN 30 ELSE t

\* part_001 lines 162-210: what ExecuteCommand can return
ExecuteCommandOutcomes ==
  { [result |-> <<>>, err |-> WrapError("NETWORK_ERROR", m, NilErr)] :
      m \in {"connect failed", "create session failed"} }
  \cup { [result |-> <<[ExitCode |-> n]>>, err |-> NilErr] : n \in {0 - 1, 0, 1} }

InitContext ==
  /\ FetchIdle
  /\ ExportIdle
  /\ IndexIdle
  /\ AppIdle
  /\ StreamIdle
  /\ SSHIdle
  /\ wpc = "run"
  /\ cpc = "select"
  /\ resultChan = <<>>
  /\ errChan = <<>>
  /\ outcome = NoReturn
  /\ reqTimeout \in 0..MaxTimeout
  /\ elapsed = 0
  /\ callerRet = NoReturn

\* a second passes while the caller waits
Tick ==
  /\ cpc = "select"
  /\ elapsed < TimeoutOf(reqTimeout)
  /\ elapsed' = elapsed + 1
  /\ UNCHANGED <<wpc, cpc, resultChan, errChan, outcome, reqTimeout, callerRet>>
  /\ UNCHANGED <<fetchVars, exportVars, indexVars, appVars, streamVars, sshVars>>

\* part_001 line 224: ExecuteCommand returns to the worker
WorkerExecute ==
  /\ wpc = "run"
  /\ outcome' \in ExecuteCommandOutcomes
  /\ wpc' = "send"
  /\ UNCHANGED <<cpc, resultChan, errChan, reqTimeout, elapsed, callerRet>>
  /\ UNCHANGED <<fetchVars, exportVars, indexVars, appVars, streamVars, sshVars>>

\* the channels have no buffer: the send needs the caller at its select
WorkerSend_Unbuffered ==
  /\ wpc = "send"
  /\ cpc = "select"
  /\ cpc' = "returned"
  /\ callerRet' = outcome
  /\ wpc' = "done"
  /\ UNCHANGED <<resultChan, errChan, outcome, reqTimeout, elapsed>>
  /\ UNCHANGED <<fetchVars, exportVars, indexVars, appVars, streamVars, sshVars>>

\* part_001 lines 225-229: the worker sends the error or the result; the
\* send needs room in the buffer
WorkerSend ==
  /\ wpc = "send"
  /\ \/ /\ outcome.err # NilErr
        /\ Len(errChan) < ChanBuffer
        /\ errChan' = Append(errChan, outcome.err)
        /\ UNCHANGED <<resultChan, cpc, callerRet>>
     \/ /\ outcome.err = NilErr
        /\ Len(resultChan) < ChanBuffer
        /\ resultChan' = Append(resultChan, outcome.result)
        /\ UNCHANGED <<errChan, cpc, callerRet>>
  /\ wpc' = "done"
  /\ UNCHANGED <<outcome, reqTimeout, elapsed>>
  /\ UNCHANGED <<fetchVars, exportVars, indexVars, appVars, streamVars, sshVars>>

\* part_001 lines 232-239: the select of the caller
CallerSelect ==
  /\ cpc = "select"
  /\ \/ /\ resultChan # <<>>
        /\ callerRet' = [result |-> Head(resultChan), err |-> NilErr]
        /\ resultChan' = Tail(resultChan)
        /\ UNCHANGED errChan
     \/ /\ errChan # <<>>
        /\ callerRet' = [result |-> <<>>, err |-> Head(errChan)]
        /\ errChan' = Tail(errChan)
        /\ UNCHANGED resultChan
     \/ /\ elapsed >= TimeoutOf(reqTimeout)
        /\ callerRet' =
             [result |-> <<>>,
              err |-> WrapError("NETWORK_ERROR", "command timed out",
                                WrapError("DEADLINE_EXCEEDED", "context deadline exceeded", NilErr))]
        /\ UNCHANGED <<resultChan, errChan>>
  /\ cpc' = "returned"
  /\ UNCHANGED <<wpc, outcome, reqTimeout, elapsed>>
  /\ UNCHANGED <<fetchVars, exportVars, indexVars, appVars, streamVars, sshVars>>

NextContext == Tick \/ WorkerExecute \/ WorkerSend \/ CallerSelect

SpecContext == InitContext /\ [][NextContext]_vars

\* ------------------------------------------------------------------ claims
Returned == pc = "done"

ReturnedNil == pc = "done" /\ result = NilErr

\* C2: whenever downloadLayerWithRetry returns nil for a call with size > 0
\* and a non-empty expectedDigest, the destination file exists, is exactly
\* size bytes long and its SHA-256 digest equals expectedDigest.
Thm_C2 ==
  (ReturnedNil /\ size > 0 /\ expectedDigest # EmptyDigest)
    => /\ file.exists
       /\ Len(file.data) = size
       /\ Sha256(file.data) = expectedDigest

\* a download that ended in success after at least one blob request
Wit_C2 ==
  /\ ReturnedNil /\ size > 0 /\ expectedDigest # EmptyDigest
  /\ blobRequests > 0 /\ ~entryValid

\* the destination held no bytes at entry and every attempt so far failed
\* with a transport error or a status other than 200/206
OnlyEarlyFailures == entrySize = 0 /\ progress = "none"

\* the error of the latest attempt, as the registry's answer determines it
LastFailure ==
  IF lastStatus = TransportError
  THEN WrapError("NETWORK_ERROR", "request failed", NilErr)
  ELSE WrapError("NETWORK_ERROR", ToString(lastStatus), NilErr)

\* C3: with an empty destination and only early failures, at most 5 blob
\* requests are issued, the call never returns nil, and once the handshake
\* has succeeded the call returns exactly after the 5th request with an
\* error that wraps the last failure.
Thm_C3 ==
  OnlyEarlyFailures =>
    /\ blobRequests <= maxRetries
    /\ ~ReturnedNil
    /\ (Returned /\ authRequests > 0 /\ result[1].Code # "AUTH_ERROR")
         => /\ blobRequests = maxRetries
            /\ result[1].Code = "IMAGE_DOWNLOAD_FAILED"
            /\ Unwrap(result) = LastFailure

\* five failed requests on an empty destination, then the error is returned
Wit_C3 ==
  /\ OnlyEarlyFailures /\ Returned /\ blobRequests = maxRetries
  /\ result # NilErr /\ result[1].Code = "IMAGE_DOWNLOAD_FAILED"

\* C4 (as claimed): whatever the on-disk size at entry, a fetch all of whose
\* attempts fail without changing the file makes at most 5 attempts.
Cex_C4 ==
  progress \in {"none", "stalled"} => blobRequests <= maxRetries

\* C5 (as claimed): digest-verification failures are counted against the
\* retry budget, so a call whose every fetched copy fails verification makes
\* at most 5 blob requests.
Cex_C5 ==
  (progress = "refetch" /\ expectedDigest # EmptyDigest) => blobRequests <= maxRetries

\* the destination held N bytes at entry, 0 < N < size
EntryPartial == 0 < entrySize /\ entrySize < size

\* the step is a blob request
IsRequest == blobRequests' = blobRequests + 1

IsPrefix(s, t) == Len(s) <= Len(t) /\ SubSeq(t, 1, Len(s)) = s

\* C9: started on a partial file of N bytes, the first blob request carries
\* Range: bytes=N-; a 206 answer is appended to the bytes already on disk;
\* and once the file holds size bytes with the expected digest the call
\* returns nil and leaves the file as it is.
Thm_C9 ==
  [][ /\ (EntryPartial /\ blobRequests = 0 /\ IsRequest) => lastRange' = entrySize
      /\ (EntryPartial /\ IsRequest /\ lastStatus' = StatusPartialContent /\ file.exists)
           => /\ IsPrefix(file.data, file'.data)
              /\ Len(file'.data) - Len(file.data) <= MaxBody
              /\ lastRange' = Len(file.data) \/ Len(file.data) = 0
      /\ (EntryPartial /\ pc = "outer" /\ file.exists /\ Len(file.data) = size
          /\ Sha256(file.data) = expectedDigest)
           => (pc' = "done" /\ result' = NilErr /\ file' = file)
    ]_vars

\* a resumed download: one ranged request, a 206 answer, success
Wit_C9 ==
  /\ EntryPartial /\ ReturnedNil
  /\ blobRequests = 1 /\ lastRange = entrySize /\ lastStatus = StatusPartialContent
  /\ Len(file.data) = size /\ Sha256(file.data) = expectedDigest

\* at entry the destination has exactly size bytes and a wrong digest
EntryCorrupt ==
  size > 0 /\ entrySize = size /\ expectedDigest # EmptyDigest /\ ~entryValid

\* C10: a file of exactly size bytes with a wrong digest is deleted before
\* any blob request, the first blob request carries no Range header, and the
\* call never returns nil with wrong-digest content on disk.
Thm_C10 ==
  /\ []((EntryCorrupt /\ pc # "start" /\ blobRequests = 0) => ~file.exists)
  /\ []((EntryCorrupt /\ ReturnedNil) => validateFileIntegrity(file, expectedDigest))
  /\ [][(EntryCorrupt /\ blobRequests = 0 /\ IsRequest)
          => (lastRange' = NoRange /\ ~file.exists)]_vars

\* the corrupt file was replaced by a full re-fetch
Wit_C10 ==
  /\ EntryCorrupt /\ ReturnedNil /\ blobRequests = 1 /\ lastRange = NoRange
  /\ lastStatus = StatusOK

\* the manifest of the run has been written
ManifestWritten == manifest.state \in {"array", "object"}

\* the Layers array of the manifest entry the run wrote
WrittenLayers == manifest.entries[1].Layers

\* C1: the Layers array of the manifest entry the export writes has as many
\* elements as the image has layers, however many layers were fetched.
Thm_C1 == ManifestWritten => Len(WrittenLayers) = Len(layers)

\* a manifest written although some layer of the image was not fetched
Wit_C1 ==
  /\ ManifestWritten /\ Len(layers) >= 2
  /\ Range(layers) \ requested # {}
  /\ Range(layers) \cap existLayers # {}

\* C6 (as claimed): the export requests no layer whose digest is in the
\* host-known set.
Cex_C6 == variant = "rest" => requested \cap existLayers = {}

\* every file the manifest lists except the absent layer files
ListedAndPresent ==
  UNION { {e.Config} \cup {l \in Range(e.Layers) : Exists(dir, l)} : e \in Range(manifest.entries) }

\* the manifest lists a layer file that is not in the output directory, and
\* nothing else is missing
OnlyLayersMissing ==
  /\ manifest.state = "array" /\ Len(manifest.entries) > 0
  /\ \A e \in Range(manifest.entries) : Exists(dir, e.Config)
  /\ \E e \in Range(manifest.entries) : \E l \in Range(e.Layers) : ~Exists(dir, l)

\* C7 (as claimed): with a manifest that lists an absent layer file,
\* assembleImageTar returns nil and the archive holds every other listed file.
Cex_C7 ==
  (epc = "exit" /\ OnlyLayersMissing)
    => /\ runErr = NilErr
       /\ ListedAndPresent \subseteq Range(tar.names)

\* C8: the i-th element of the manifest's Layers is "<digest>.tar" of the
\* image's i-th layer, in the sequential and in the errgroup variant.
Thm_C8 ==
  ManifestWritten =>
    /\ DOMAIN WrittenLayers = DOMAIN layers
    /\ \A i \in Indices(layers) : WrittenLayers[i] = LayerFile(layers[i])

\* two different layers whose tasks completed in the reverse of image order
Wit_C8 ==
  /\ ManifestWritten /\ variant = "cache"
  /\ Len(layers) >= 2 /\ layers[1] # layers[2]
  /\ \E j, k \in Indices(finished) : j < k /\ finished[j] > finished[k]

\* C11 (as claimed): no blob request is issued while the destination holds
\* more than size bytes: an oversized file is truncated first, so no request
\* carries a Range header that starts beyond size.
Cex_C11 == expectedDigest # EmptyDigest => lastRange <= size

\* at entry the destination is the blob itself: size bytes, expected digest
EntryComplete == size > 0 /\ entrySize = size /\ entryValid

\* C12: a call entered with the complete, valid file returns nil in its
\* first step, without a probe, token or blob request, and leaves the file
\* as it is.
Thm_C12 ==
  /\ []((EntryComplete /\ pc # "start")
          => (ReturnedNil /\ authRequests = 0 /\ blobRequests = 0
              /\ file.exists /\ Len(file.data) = entrySize
              /\ validateFileIntegrity(file, expectedDigest)))
  /\ [][(EntryComplete /\ pc = "start")
          => (pc' = "done" /\ result' = NilErr /\ file' = file
              /\ authRequests' = 0 /\ blobRequests' = 0)]_vars

\* the call returned at once on a complete file
Wit_C12 ==
  /\ EntryComplete /\ ReturnedNil
  /\ authRequests = 0 /\ blobRequests = 0 /\ lastStatus = NoStatus

\* the run ended with a failure that came before the assembly
FailedBeforeAssembly ==
  epc = "exit" /\ runErr # NilErr /\ runErr[1].Code # "TAR_ASSEMBLY_FAILED"

\* C13: in the REST exporter a failure of the host query, of the manifest
\* fetch or of a layer download ends the run at once with that error, the
\* archive is never created for that run and no later layer is requested;
\* an archive exists only when the manifest was written and every layer file
\* of the image is complete.
Thm_C13 ==
  variant = "rest" =>
    /\ FailedBeforeAssembly
         => (~tar.exists /\ mi = 0 /\ manifest = NoManifest /\ ~repositories.exists)
    /\ tar.exists
         => /\ manifest.state = "array"
            /\ dir[ConfigFile] = "valid"
            /\ \A i \in Indices(layers) : dir[LayerFile(layers[i])] = "valid"
            /\ (runErr # NilErr => runErr[1].Code = "TAR_ASSEMBLY_FAILED")

\* the download of the second layer failed after the first was fetched: the
\* run ended with the error and without an archive
Wit_C13 ==
  /\ variant = "rest" /\ FailedBeforeAssembly
  /\ runErr[1].Code = "IMAGE_DOWNLOAD_FAILED"
  /\ idx = 2 /\ requested # {} /\ ~tar.exists

\* the handshake met a probe status other than 200 and 401, a token status
\* other than 200, or a token body that does not decode
BadHandshakeStatus ==
  \/ probeStatus \notin {NoStatus, TransportError, StatusOK, StatusUnauthorized}
  \/ probeStatus = StatusUnauthorized /\ tokenReply \in {"status", "undecodable"}

\* C14: after such a handshake the call has returned an AUTH_ERROR that wraps
\* an AUTH_ERROR, and it has issued no blob request.
Thm_C14 ==
  BadHandshakeStatus =>
    /\ Returned /\ result # NilErr
    /\ result[1].Code = "AUTH_ERROR"
    /\ Unwrap(result) # NilErr /\ Unwrap(result)[1].Code = "AUTH_ERROR"
    /\ blobRequests = 0 /\ lastStatus = NoStatus

\* the token body did not decode and the call returned
Wit_C14 ==
  /\ probeStatus = StatusUnauthorized /\ tokenReply = "undecodable"
  /\ Returned /\ blobRequests = 0

\* C16: once the handshake is done the token, and the count of handshake
\* requests, never change; every blob request carries the Authorization
\* header made from that token, the same as the request before it; a blob
\* status other than 200 and 206 only records a NETWORK_ERROR and continues
\* the retry loop with the file untouched.
Thm_C16 ==
  /\ [][probeStatus # NoStatus
          => (token' = token /\ authRequests' = authRequests
              /\ probeStatus' = probeStatus /\ tokenURL' = tokenURL
              /\ tokenReply' = tokenReply)]_vars
  /\ [][IsRequest
          => (authorization' = AuthorizationHeader(token)
              /\ (blobRequests > 0 => authorization' = authorization))]_vars
  /\ [][(IsRequest /\ lastStatus' \notin {TransportError, StatusOK, StatusPartialContent})
          => (pc' = "inner" /\ file' = file /\ result' = result
              /\ lastErr' # NilErr /\ lastErr'[1].Code = "NETWORK_ERROR")]_vars

\* a 401 on a blob request after an earlier request, both with the token of
\* the one handshake
Wit_C16 ==
  /\ token = "tok" /\ lastStatus = StatusUnauthorized /\ blobRequests >= 2
  /\ authRequests = 2 /\ authorization = <<"Bearer ", "tok">> /\ pc = "inner"

\* the scope the token request must name for the registry's challenge
ChallengeScope ==
  IF registry.challenge.scope = <<>>
  THEN <<"repository:", RepositoryStr, ":pull">>
  ELSE registry.challenge.scope

\* C17 (as claimed): a probe answered 200 gives the empty token and blob
\* requests without Authorization; a probe answered 401 with a Bearer
\* challenge gives a token request for the challenge's realm, service and
\* scope (repository:<repo>:pull when it has none), and every blob request
\* then carries Bearer <token>.
Cex_C17 ==
  /\ probeStatus = StatusOK
       => (token = "" /\ tokenURL = NoURL /\ authorization = <<>>)
  /\ (probeStatus = StatusUnauthorized /\ registry.challenge.scheme = "Bearer")
       => tokenURL = registry.challenge.realm \o <<"?service=">>
                       \o registry.challenge.service \o <<"&scope=">> \o ChallengeScope
  /\ (probeStatus = StatusUnauthorized /\ blobRequests > 0)
       => authorization = <<"Bearer ", registry.token>>

\* C15 (as claimed): a run of the REST exporter makes the handshake once, so
\* never more than once.
Cex_C15 == variant = "rest" => handshakes <= 1

\* the REST exporter has written manifest.json and repositories
RestWritten == variant = "rest" /\ ManifestWritten /\ repositories.exists

\* C18: for a reference with a colon the REST exporter writes RepoTags =
\* [reference] and the one repositories entry repo -> tag -> configDigest,
\* where reference = repo ":" tag and tag holds no colon.
Thm_C18 ==
  (RestWritten /\ \E i \in Indices(imageRef) : imageRef[i] = ":") =>
    /\ manifest.entries[1].RepoTags = <<imageRef>>
    /\ Cardinality(repositories.map) = 1
    /\ \A e \in repositories.map :
         /\ e[1] \o <<":">> \o e[2] = imageRef
         /\ \A j \in Indices(e[2]) : e[2][j] # ":"
         /\ e[3] = ConfigDigest
    /\ imageRef = <<"repo/name", ":", "v1">>
         => repositories.map = {<< <<"repo/name">>, <<"v1">>, ConfigDigest >>}

\* a reference with a registry port and a tag: the port stays in the name
Wit_C18 ==
  /\ RestWritten /\ imageRef = <<"host", ":", "5000/repo/name", ":", "v1">>
  /\ repositories.map = {<< <<"host", ":", "5000/repo/name">>, <<"v1">>, ConfigDigest >>}

\* C19 (as claimed): for a reference without a colon the repositories
\* mapping the REST exporter writes is reference -> latest -> configDigest.
Cex_C19 ==
  (RestWritten /\ \A i \in Indices(imageRef) : imageRef[i] # ":") =>
    repositories.map = {<<imageRef, <<"latest">>, ConfigDigest>>}

\* the config file of a manifest entry followed by its layer files that exist
EntryNames(e) == <<e.Config>> \o SelectSeq(e.Layers, LAMBDA l : Exists(dir, l))

RECURSIVE EntriesNames(_)
EntriesNames(es) ==
  IF es = <<>> THEN <<>> ELSE EntryNames(Head(es)) \o EntriesNames(Tail(es))

\* the archive of the claim: manifest.json, repositories when it exists, and
\* for each entry its config file and its existing layer files, in order
ExpectedTar ==
  <<"manifest.json">> \o (IF repositories.exists THEN <<"repositories">> ELSE <<>>)
    \o EntriesNames(manifest.entries)

\* C20 (as claimed): when assembleImageTar has ended on a manifest whose
\* config files all exist, the archive holds exactly those names in that
\* order.
Cex_C20 ==
  (/\ epc = "exit" /\ manifest.state = "array" /\ Len(manifest.entries) > 0
   /\ \A e \in Range(manifest.entries) : Exists(dir, e.Config))
    => (tar.exists /\ tar.names = ExpectedTar)

\* manifest.json is missing, does not parse as an array, or is an empty array
ManifestUnusable == manifest.state # "array" \/ Len(manifest.entries) = 0

\* a manifest entry names a config file that is not in the output directory
ConfigMissing ==
  /\ manifest.state = "array"
  /\ \E e \in Range(manifest.entries) : ~Exists(dir, e.Config)

\* C21: when assembleImageTar has ended on a missing, unparsable or empty
\* manifest.json, or on a manifest with an entry whose config file is
\* missing, it has returned an error: FILE_OPERATION_FAILED for the missing
\* manifest, IMAGE_PARSE_FAILED for the unparsable or empty one, and
\* TAR_ASSEMBLY_FAILED otherwise; the archive never holds the missing file.
Thm_C21 ==
  (epc = "exit" /\ (ManifestUnusable \/ ConfigMissing)) =>
    /\ runErr # NilErr /\ runErr[1].Code = "TAR_ASSEMBLY_FAILED"
    /\ manifest.state = "none" => Unwrap(runErr)[1].Code = "FILE_OPERATION_FAILED"
    /\ (manifest.state # "none" /\ ManifestUnusable)
         => (Unwrap(runErr)[1].Code = "IMAGE_PARSE_FAILED" /\ ~tar.exists)
    /\ ~ManifestUnusable => Unwrap(runErr)[1].Code = "TAR_ASSEMBLY_FAILED"
    /\ \A n \in Range(tar.names) \ {"manifest.json", "repositories"} : Exists(dir, n)

\* the config file is missing although every layer file is there: the
\* archive was begun and the call failed
Wit_C21 ==
  /\ epc = "exit" /\ ConfigMissing /\ Len(manifest.entries) >= 1
  /\ \A d \in Digests : Exists(dir, LayerFile(d))
  /\ tar.exists /\ runErr # NilErr

\* C22: when a request that carried a Range header is answered 200, the
\* destination afterwards holds exactly the bytes written from that
\* response and nothing of what it held before.
Thm_C22 ==
  [][(IsRequest /\ lastRange' # NoRange /\ lastStatus' = StatusOK)
       => (file'.exists /\ file'.data = written')]_vars

\* a resume of a partial file answered 200: the file is the new body
Wit_C22 ==
  /\ blobRequests = 1 /\ entrySize > 0 /\ lastRange = entrySize
  /\ lastStatus = StatusOK /\ pc = "outer"
  /\ written # <<>> /\ file.data = written

Thm_C24 ==
  (variant = "rest" /\ ManifestWritten) =>
    manifest = [state |-> "array",
                entries |-> <<[Config |-> ConfigFile,
                               RepoTags |-> <<imageRef>>,
                               Layers |-> [i \in Indices(layers) |-> LayerFile(layers[i])]]>>]

\* a manifest written after a run that fetched one layer and found the other
\* on disk, with a host-known digest among the layers
Wit_C24 ==
  /\ variant = "rest" /\ ManifestWritten /\ Len(layers) = 2
  /\ layers[1] \in requested /\ layers[1] \in existLayers
  /\ layers[2] \notin requested /\ layers[2] \notin existLayers

\* C25: never more than `concurrency` layer tasks are in progress, and when
\* the group has been waited for, a task was started for every layer and
\* has finished.
Thm_C25 ==
  variant = "cache" =>
    /\ Cardinality(Running) <= concurrency
    /\ epc = "exit" =>
         /\ Len(tasks) = Len(layers)
         /\ \A i \in Indices(layers) : tasks[i] \in {"ok", "failed"}
         /\ Range(finished) = Indices(layers)

\* two layers, one slot: the second task waits while the first one copies
Wit_C25 ==
  /\ variant = "cache" /\ concurrency = 1 /\ Len(layers) = 2 /\ Len(tasks) = 2
  /\ tasks[1] = "copy" /\ tasks[2] = "new" /\ epc = "spawn"

\* C26 (as claimed): no two layer tasks that run at the same time have the
\* same destination file open for writing.
Cex_C26 ==
  \A i, j \in Indices(tasks) :
    (i # j /\ tasks[i] = "copy" /\ tasks[j] = "copy")
      => LayerFile(layers[i]) # LayerFile(layers[j])

\* a layer task ended with an error
LayerFailed ==
  \/ variant = "cache" /\ WaitFails(tasks)
  \/ variant = "rest" /\ runErr # NilErr /\ runErr[1].Code = "IMAGE_DOWNLOAD_FAILED"

\* C30: the metadata is written only when every layer task has succeeded;
\* when a layer task failed, no manifest is written and the run ends with
\* the error.
Thm_C30 ==
  /\ (variant = "cache" /\ ManifestWritten)
       => (Len(tasks) = Len(layers) /\ \A i \in Indices(layers) : tasks[i] = "ok")
  /\ (variant = "rest" /\ ManifestWritten)
       => (idx > Len(layers) /\ \A d \in Range(layers) : dir[LayerFile(d)] = "valid")
  /\ LayerFailed => manifest = NoManifest /\ repositories = NoRepositories
  /\ (LayerFailed /\ epc = "exit") => runErr # NilErr

\* the group was waited for with one task failed and one succeeded
Wit_C30 ==
  /\ variant = "cache" /\ epc = "exit" /\ Len(layers) = 2
  /\ tasks[1] = "ok" /\ tasks[2] = "failed"
  /\ manifest = NoManifest /\ runErr # NilErr

\* C27 (as claimed): after the k-th failed attempt of a cycle the retry loop
\* sleeps k x 2 seconds.  While every attempt so far has failed and left the
\* file as it was, the attempts made are the failed attempts of the first
\* cycle.
Cex_C27 ==
  (pc = "inner" /\ blobRequests > 0 /\ progress \in {"none", "stalled"})
    => slept = blobRequests * 2

\* C29 (as claimed): the config file written is the image's configuration
\* blob, byte for byte.
Cex_C29 == (variant = "rest" /\ configData # <<>>) => configData = rawConfig

\* C28 (as claimed): when ExportImage has returned nil, the repositories
\* mapping of the archive holds, for every exported image, its tag mapped to
\* its config digest under its repository name.
Cex_C28 ==
  (epc = "exit" /\ runErr = NilErr /\ images # <<>>) =>
    \A i \in Indices(images) :
      LET image == NormalizeImage(images[i]) IN
      <<RepoNameOf(image), TagOf(image), ConfigNameOf(image)>> \in allRepositories

\* C31 (as claimed): whenever saveLayer has returned nil for a layer, the
\* cached layer file has exactly the layer's size and holds its content.
Cex_C31 ==
  variant = "cache" =>
    \A i \in Indices(tasks) : tasks[i] = "ok" => dir[LayerFile(layers[i])] = "valid"

\* the registry answered every call of selectPlatformImage
RegistryAnswered ==
  indexResult = "error" => indexErr[1].Message = "no suitable platform image"

\* the entry the claim names: the first one whose platform equals the
\* requested one, the first entry of the index when there is none
ClaimedEntry ==
  LET parts == Split(platform, "/")
      eq(m) == /\ ~m.nil /\ Len(parts) >= 2
               /\ m.OS = parts[1] /\ m.Architecture = parts[2]
               /\ m.Variant = (IF Len(parts) >= 3 THEN parts[3] ELSE <<>>)
      hits == {i \in Indices(manifests) : eq(manifests[i])}
  IN IF hits = {} THEN 1 ELSE CHOOSE i \in hits : \A j \in hits : i <= j

\* C38 (as claimed): for a requested platform, selectPlatformImage returns
\* the image of the first matching entry, of the first entry when none
\* matches, also when that entry has no platform record, and an error only
\* for an index without entries.
Cex_C38 ==
  (ipc = "done" /\ platform # <<>> /\ RegistryAnswered) =>
    IF manifests = <<>>
    THEN indexResult = "error"
    ELSE indexResult = "image" /\ selectedDesc = ClaimedEntry

\* C37: when LoadConfig has failed, whatever the reason, the run goes on
\* with DefaultConfig(), and initializeApplication returns an error exactly
\* when the default configuration fails validation, which it does only when
\* its output directory cannot be created.
Thm_C37 ==
  (apc # "load" /\ loadErr # NilErr) =>
    /\ globalConfig = DefaultConfig
    /\ apc = "done" =>
         /\ appErr # NilErr <=> validateConfig(DefaultConfig, keyFiles, dirs) # NilErr
         /\ appErr # NilErr <=> dirs["output"] = "blocked"
         /\ appErr # NilErr => appErr[1].Code = "CONFIG_VALIDATE_FAILED"

\* the loaded values failed validation and the run went on with the defaults
Wit_C37 ==
  /\ apc = "done" /\ configFile.state = "json" /\ loadErr # NilErr
  /\ loadErr[1].Code = "CONFIG_ERROR"
  /\ appErr = NilErr /\ globalConfig = DefaultConfig

\* C32: in a streamed execution outputChan is closed exactly once and
\* nothing is sent on it after the close, whatever the interleaving of the
\* stdout reader, the stderr reader, the exit status send and the handler
\* goroutine.
Cex_C32 == closes <= 1 /\ streamPanic # "send on closed channel"

\* C33: ExecuteCommand never calls NewSession on a nil client, whatever
\* the interleaving with a concurrent Disconnect.
Cex_C33 == ~nilUse

\* the threads whose operation has begun and not ended
Pending == {t \in Threads : Instr(t)[1] # "none"}

\* C34: the manager lock is always taken before the client lock, never by
\* a thread that holds the client lock, and no state is a deadlock: while an
\* operation is pending some pending operation can take a step.
Thm_C34 ==
  /\ \A t \in Threads :
       (cliLock.w = t \/ t \in cliLock.r) => ~(Instr(t)[1] = "lock" /\ Instr(t)[2] = "mgr")
  /\ Pending # {} => \E t \in Pending : ENABLED (Acquire(t) \/ Body(t) \/ Release(t))

\* a manager operation holds the manager lock and waits for the client
\* lock, which a running command holds
Wit_C34 ==
  \E t, u \in Threads :
    /\ mgrLock.w = t /\ Instr(t) = <<"lock", "cli", "w">>
    /\ cliLock.w = u /\ Instr(u) = <<"do", "run", "">>

\* C35: connected implies client # nil in every state; Connect on a
\* connected client changes neither field; Disconnect leaves the client nil
\* and not connected, and changes nothing when it is so already.
Thm_C35 ==
  [][ /\ connected => client # "nil"
      /\ connected' => client' # "nil"
      /\ \A t \in Threads :
           /\ (Body(t) /\ Instr(t)[2] = "connect" /\ connected) =>
                UNCHANGED <<client, connected>>
           /\ (Body(t) /\ Instr(t)[2] = "disconnect") =>
                /\ client' = "nil" /\ ~connected'
                /\ (client = "nil" /\ ~connected) => UNCHANGED <<client, connected>> ]_vars

\* two Disconnect calls have executed their bodies
Wit_C35 ==
  \E t, u \in Threads :
    /\ t # u /\ top[t] = "Disconnect" /\ top[u] = "Disconnect"
    /\ tpc[t] > 2 /\ tpc[u] > 2 /\ client = "nil" /\ ~connected

====
